---------------------------- MODULE Spec2Model ----------------------------
(***************************************************************************)
(* Call orchestration of dispatchiq: the relay server(s) that sit between  *)
(* the telephony bridge (Twilio Media Streams), the speech / agent         *)
(* pipelines, the structured-extraction endpoint and the approval channel. *)
(*                                                                         *)
(* The repository holds several generations of the relay.  Each part of    *)
(* the model names the generation it is translated from:                   *)
(*   - mode routing      : src/dispatchiq/app/history/page.tsx (server at  *)
(*                         lines 130-1827: Deepgram for human mode, OpenAI *)
(*                         Realtime for agent mode);                        *)
(*   - incident merge and                                                  *)
(*     extraction        : src/dispatchiq/server/index.ts                  *)
(*   - synthesis/barge-in: src/unnamed/part_012 (Aura over WebSocket) and  *)
(*                         src/unnamed/part_013 (Aura over HTTP);          *)
(*   - action gate       : src/dispatchiq/server/index.ts                  *)
(* The parts share no state in the code, so each has its own               *)
(* next-state relation and specification over the common variables.        *)
(***************************************************************************)
EXTENDS Integers, Sequences, FiniteSets, TLC

\* ------------------------------------------------------------------------
\* Bounds of the model (not program constants)
\* ------------------------------------------------------------------------
MaxFrames == 2

\* ------------------------------------------------------------------------
\* Mode routing  (app/history/page.tsx, server part)
\* ------------------------------------------------------------------------
\* Twilio opens one WebSocket per call stream; Conns are those sockets and
\* CallOf is the call id the bridge announces on each of them.
Conns == {"w1", "w2"}

CallOf(c) == IF c = "w1" THEN "CA1" ELSE "CA2"

CallIds == {CallOf(c) : c \in Conns}

VARIABLES
    aiModeEnabled,          \* let aiModeEnabled = false
    callSid,                \* per connection: let callSid (closure variable), "" = null
    isThisCallAiMode,       \* per connection: let isThisCallAiMode = false
    openaiWs,               \* per connection: readyState of the OpenAI socket, "null" if none
    deepgramConnection,     \* per connection: "null", "live" or "finished"
    wsOpen,                 \* per connection: the Twilio socket is still open
    startPc,                \* per connection: position of the async 'start' handler
    stopPc,                 \* per connection: position of the async 'stop' handler
    wasAiModeCall,          \* per connection: const wasAiModeCall of the 'stop' handler
    callStateMap,           \* Map callSid -> CallState (here: its isAiMode field)
    callSessionMap,         \* Map callSid -> CallSession (here: the connection holding it)
    deepgramConnectionMap,  \* Map callSid -> Deepgram connection (here: its connection)
    aiCallsMap,             \* Map callSid -> AIMonitorCall (here: its status)
    purgeTimers,            \* call ids with a pending 5-minute aiCallsMap purge timer
    reportRequested,        \* per call id: number of generateReport calls
    framesIn,               \* per connection: media frames handled so far
    fwdOpenAI,              \* per connection: frames sent to the OpenAI socket
    fwdDeepgram,            \* per connection: frames sent to the Deepgram connection
    boundMode               \* per connection: value of aiModeEnabled read by 'start'

routeVars == <<aiModeEnabled, callSid, isThisCallAiMode, openaiWs, deepgramConnection,
               wsOpen, startPc, stopPc, wasAiModeCall, callStateMap, callSessionMap,
               deepgramConnectionMap, aiCallsMap, purgeTimers, reportRequested,
               framesIn, fwdOpenAI, fwdDeepgram, boundMode>>

\* Map helpers: a Map is a function whose domain is the set of present keys.
MapSet(m, k, v) == [x \in DOMAIN m \cup {k} |-> IF x = k THEN v ELSE m[x]]

MapDelete(m, k) == [x \in DOMAIN m \ {k} |-> m[x]]

EmptyMap == [x \in {} |-> TRUE]

RouteInit ==
    /\ aiModeEnabled = FALSE
    /\ callSid = [c \in Conns |-> ""]
    /\ isThisCallAiMode = [c \in Conns |-> FALSE]
    /\ openaiWs = [c \in Conns |-> "null"]
    /\ deepgramConnection = [c \in Conns |-> "null"]
    /\ wsOpen = [c \in Conns |-> TRUE]
    /\ startPc = [c \in Conns |-> "idle"]
    /\ stopPc = [c \in Conns |-> "idle"]
    /\ wasAiModeCall = [c \in Conns |-> FALSE]
    /\ callStateMap = EmptyMap
    /\ callSessionMap = EmptyMap
    /\ deepgramConnectionMap = EmptyMap
    /\ aiCallsMap = EmptyMap
    /\ purgeTimers = {}
    /\ reportRequested = [s \in CallIds |-> 0]
    /\ framesIn = [c \in Conns |-> 0]
    /\ fwdOpenAI = [c \in Conns |-> 0]
    /\ fwdDeepgram = [c \in Conns |-> 0]
    /\ boundMode = [c \in Conns |-> FALSE]

\* app.post('/api/ai-mode'): aiModeEnabled = Boolean(enabled)
ToggleAiMode(enabled) ==
    /\ aiModeEnabled' = enabled
    /\ UNCHANGED <<callSid, isThisCallAiMode, openaiWs, deepgramConnection, wsOpen,
                   startPc, stopPc, wasAiModeCall, callStateMap, callSessionMap,
                   deepgramConnectionMap, aiCallsMap, purgeTimers, reportRequested,
                   framesIn, fwdOpenAI, fwdDeepgram, boundMode>>

\* case 'start', up to `await createCallRecord(...)`: the closure variables
\* are assigned and the process-wide flag is read into isThisCallAiMode.
StartBegin(c, s) ==
    /\ callSid' = [callSid EXCEPT ![c] = s]
    /\ isThisCallAiMode' = [isThisCallAiMode EXCEPT ![c] = aiModeEnabled]
    /\ boundMode' = [boundMode EXCEPT ![c] = aiModeEnabled]
    /\ startPc' = [startPc EXCEPT ![c] = "awaitRecord"]
    /\ UNCHANGED <<aiModeEnabled, openaiWs, deepgramConnection, wsOpen, stopPc,
                   wasAiModeCall, callStateMap, callSessionMap, deepgramConnectionMap,
                   aiCallsMap, purgeTimers, reportRequested, framesIn, fwdOpenAI,
                   fwdDeepgram>>

\* A relay that consults the process-wide flag on every use instead of the
\* value bound by the start event (not what the code does).
CallModeLive(c) == aiModeEnabled

\* The connection's mode as the handlers read it after the start event: the
\* closure variable isThisCallAiMode (never the process-wide flag).
CallMode(c) == isThisCallAiMode[c]

\* A start handler that reads the flag again after `await createCallRecord`
\* when it builds the CallState (not what the code does).
StoredModeReread(c) == aiModeEnabled

\* The isAiMode value stored in the new CallState: `isAiMode: isThisCallAiMode`.
StoredMode(c) == isThisCallAiMode[c]

\* case 'start', from the return of createCallRecord to the next await (human
\* mode: `await initDeepgramConnection`) or to the end of the handler (AI mode).
StartAfterRecord(c) ==
    /\ startPc[c] = "awaitRecord"
    /\ callStateMap' = MapSet(callStateMap, callSid[c], [isAiMode |-> StoredMode(c)])
    /\ IF CallMode(c)
         THEN /\ aiCallsMap' = MapSet(aiCallsMap, callSid[c], "active")
              /\ openaiWs' = [openaiWs EXCEPT ![c] = "connecting"]
              /\ callSessionMap' = MapSet(callSessionMap, callSid[c], c)
              /\ startPc' = [startPc EXCEPT ![c] = "done"]
         ELSE /\ startPc' = [startPc EXCEPT ![c] = "awaitDeepgram"]
              /\ UNCHANGED <<aiCallsMap, openaiWs, callSessionMap>>
    /\ UNCHANGED <<aiModeEnabled, callSid, isThisCallAiMode, deepgramConnection, wsOpen,
                   stopPc, wasAiModeCall, deepgramConnectionMap, purgeTimers,
                   reportRequested, framesIn, fwdOpenAI, fwdDeepgram, boundMode>>

\* case 'start', human mode, after `await initDeepgramConnection(callSid)`.
StartAfterDeepgram(c) ==
    /\ startPc[c] = "awaitDeepgram"
    /\ deepgramConnection' = [deepgramConnection EXCEPT ![c] = "live"]
    /\ deepgramConnectionMap' = MapSet(deepgramConnectionMap, callSid[c], c)
    /\ startPc' = [startPc EXCEPT ![c] = "done"]
    /\ UNCHANGED <<aiModeEnabled, callSid, isThisCallAiMode, openaiWs, wsOpen, stopPc,
                   wasAiModeCall, callStateMap, callSessionMap, aiCallsMap, purgeTimers,
                   reportRequested, framesIn, fwdOpenAI, fwdDeepgram, boundMode>>

\* openaiWs.on('open'): the socket created by connectToOpenAI becomes OPEN.
OpenAIOpen(c) ==
    /\ openaiWs[c] = "connecting"
    /\ openaiWs' = [openaiWs EXCEPT ![c] = "open"]
    /\ UNCHANGED <<aiModeEnabled, callSid, isThisCallAiMode, deepgramConnection, wsOpen,
                   startPc, stopPc, wasAiModeCall, callStateMap, callSessionMap,
                   deepgramConnectionMap, aiCallsMap, purgeTimers, reportRequested,
                   framesIn, fwdOpenAI, fwdDeepgram, boundMode>>

\* case 'media': the pipeline the frame is dispatched to, `if (isThisCallAiMode)`.
MediaPipeline(c) == IF CallMode(c) THEN "openai" ELSE "deepgram"

\* case 'media' (synchronous): forward the payload to the pipeline of the
\* connection's mode, if that pipeline's connection is usable.
Media(c, hasPayload) ==
    /\ framesIn' = [framesIn EXCEPT ![c] = @ + 1]
    /\ IF hasPayload /\ MediaPipeline(c) = "openai" /\ openaiWs[c] = "open"
         THEN fwdOpenAI' = [fwdOpenAI EXCEPT ![c] = @ + 1]
         ELSE UNCHANGED fwdOpenAI
    /\ IF hasPayload /\ MediaPipeline(c) = "deepgram" /\ deepgramConnection[c] # "null"
         THEN fwdDeepgram' = [fwdDeepgram EXCEPT ![c] = @ + 1]
         ELSE UNCHANGED fwdDeepgram
    /\ UNCHANGED <<aiModeEnabled, callSid, isThisCallAiMode, openaiWs, deepgramConnection,
                   wsOpen, startPc, stopPc, wasAiModeCall, callStateMap, callSessionMap,
                   deepgramConnectionMap, aiCallsMap, purgeTimers, reportRequested,
                   boundMode>>

\* case 'stop', up to `await endCallRecord(...)`: wasAiModeCall is read from
\* the call state (`endingCallState?.isAiMode ?? false`).
StopBegin(c, s) ==
    /\ wasAiModeCall' = [wasAiModeCall EXCEPT ![c] =
                            IF s \in DOMAIN callStateMap THEN callStateMap[s].isAiMode
                                                         ELSE FALSE]
    /\ stopPc' = [stopPc EXCEPT ![c] = "awaitEnd"]
    /\ UNCHANGED <<aiModeEnabled, callSid, isThisCallAiMode, openaiWs, deepgramConnection,
                   wsOpen, startPc, callStateMap, callSessionMap, deepgramConnectionMap,
                   aiCallsMap, purgeTimers, reportRequested, framesIn, fwdOpenAI,
                   fwdDeepgram, boundMode>>

\* session.openaiWs.close() on the session stored for call s, if there is one.
CloseSessionSocket(s) ==
    IF s \in DOMAIN callSessionMap /\ openaiWs[callSessionMap[s]] # "null"
      THEN [openaiWs EXCEPT ![callSessionMap[s]] = "closed"]
      ELSE openaiWs

\* dgConn.finish() on the Deepgram connection stored for call s, if there is one.
FinishDeepgram(s) ==
    IF s \in DOMAIN deepgramConnectionMap
      THEN [deepgramConnection EXCEPT ![deepgramConnectionMap[s]] = "finished"]
      ELSE deepgramConnection

\* case 'stop', after `await endCallRecord(...)`: tear the call down and
\* request the final report.
StopAfterEnd(c, s) ==
    /\ stopPc[c] = "awaitEnd"
    /\ IF wasAiModeCall[c]
         THEN /\ aiCallsMap' = IF s \in DOMAIN aiCallsMap
                                 THEN MapSet(aiCallsMap, s, "completed")
                                 ELSE aiCallsMap
              /\ openaiWs' = CloseSessionSocket(s)
              /\ callSessionMap' = MapDelete(callSessionMap, s)
              /\ purgeTimers' = purgeTimers \cup {s}
              /\ UNCHANGED <<deepgramConnection, deepgramConnectionMap>>
         ELSE /\ deepgramConnection' = FinishDeepgram(s)
              /\ deepgramConnectionMap' = MapDelete(deepgramConnectionMap, s)
              /\ UNCHANGED <<aiCallsMap, openaiWs, callSessionMap, purgeTimers>>
    /\ reportRequested' = IF s \in DOMAIN callStateMap
                            THEN [reportRequested EXCEPT ![s] = @ + 1]
                            ELSE reportRequested
    /\ callStateMap' = MapDelete(callStateMap, s)
    /\ stopPc' = [stopPc EXCEPT ![c] = "done"]
    /\ UNCHANGED <<aiModeEnabled, callSid, isThisCallAiMode, wsOpen, startPc,
                   wasAiModeCall, framesIn, fwdOpenAI, fwdDeepgram, boundMode>>

\* setTimeout(() => aiCallsMap.delete(callSid), 5 * 60 * 1000) firing.
PurgeAiCall(s) ==
    /\ s \in purgeTimers
    /\ purgeTimers' = purgeTimers \ {s}
    /\ aiCallsMap' = MapDelete(aiCallsMap, s)
    /\ UNCHANGED <<aiModeEnabled, callSid, isThisCallAiMode, openaiWs, deepgramConnection,
                   wsOpen, startPc, stopPc, wasAiModeCall, callStateMap, callSessionMap,
                   deepgramConnectionMap, reportRequested, framesIn, fwdOpenAI,
                   fwdDeepgram, boundMode>>

\* ws.on('close') / ws.on('error'): both run the same cleanup of the
\* connection's pipeline.
WsClose(c) ==
    /\ wsOpen' = [wsOpen EXCEPT ![c] = FALSE]
    /\ IF callSid[c] = ""
         THEN UNCHANGED <<openaiWs, callSessionMap, deepgramConnection,
                          deepgramConnectionMap>>
         ELSE IF CallMode(c)
           THEN /\ openaiWs' = CloseSessionSocket(callSid[c])
                /\ callSessionMap' = MapDelete(callSessionMap, callSid[c])
                /\ UNCHANGED <<deepgramConnection, deepgramConnectionMap>>
           ELSE /\ deepgramConnection' = FinishDeepgram(callSid[c])
                /\ deepgramConnectionMap' = MapDelete(deepgramConnectionMap, callSid[c])
                /\ UNCHANGED <<openaiWs, callSessionMap>>
    /\ UNCHANGED <<aiModeEnabled, callSid, isThisCallAiMode, startPc, stopPc,
                   wasAiModeCall, callStateMap, aiCallsMap, purgeTimers, reportRequested,
                   framesIn, fwdOpenAI, fwdDeepgram, boundMode>>

\* ------------------------------------------------------------------------
\* Incident merge  (server/index.ts, analyzeAndBroadcast; the same statements
\* are in runSimulationAnalysis and in app/history/page.tsx)
\* ------------------------------------------------------------------------
\* interface IncidentDetails: the six fields, each `string | null`.
IncidentFields == {"location", "type", "injuries", "threatLevel", "peopleCount",
                   "callerRole"}

\* JSON null.
Null == "<null>"

\* Non-null field values used as inputs.
KnownValues == {"v1", "v2"}

\* `const { urgency, ...fields } = updates`: the update without its urgency key.
RestFields(updates) == [f \in DOMAIN updates \ {"urgency"} |-> updates[f]]

\* A merge that starts from an all-unknown incident and keeps only what the
\* update supplies (not what the code does).
MergeReplace(incident, fields) ==
    [f \in DOMAIN incident \cup DOMAIN fields |->
        IF f \in DOMAIN fields THEN fields[f] ELSE Null]

\* `{ ...state.incident, ...fields }`: every key of fields, null or not,
\* overrides the incident's value; the other keys keep theirs.
MergeIncident(incident, fields) ==
    [f \in DOMAIN incident \cup DOMAIN fields |->
        IF f \in DOMAIN fields THEN fields[f] ELSE incident[f]]

VARIABLES
    mergeBefore,    \* state.incident before the merge
    mergeUpdates,   \* data.updates of the response being merged
    mergeAfter,     \* state.incident after the merge
    mergeDone       \* the merge statement has run

mergeVars == <<mergeBefore, mergeUpdates, mergeAfter, mergeDone>>

\* Incidents the merge is applied to.
MergeIncidents == [IncidentFields -> {Null, "v1"}]

\* Updates the endpoint can return: any subset of the fields, each null or
\* a value (parseModelJson hands the model's `updates` object on as it is).
MergeUpdates == UNION {[S -> {Null} \cup KnownValues] : S \in SUBSET IncidentFields}

\* No merge under way.
MergeIdle ==
    /\ mergeBefore = [f \in IncidentFields |-> Null]
    /\ mergeUpdates = [f \in {} |-> Null]
    /\ mergeAfter = mergeBefore
    /\ mergeDone = FALSE

\* A response with some updates has arrived for an incident in some state.
MergeInputs ==
    /\ mergeBefore \in MergeIncidents
    /\ mergeUpdates \in MergeUpdates
    /\ mergeAfter = mergeBefore
    /\ mergeDone = FALSE

\* `state.incident = { ...state.incident, ...fields }`
ApplyMerge ==
    /\ ~mergeDone
    /\ mergeAfter' = MergeIncident(mergeBefore, RestFields(mergeUpdates))
    /\ mergeDone' = TRUE
    /\ UNCHANGED <<mergeBefore, mergeUpdates>>

\* ------------------------------------------------------------------------
\* Extraction trigger and result handling for one call  (server/index.ts)
\* ------------------------------------------------------------------------
VARIABLES
    callPhase,      \* "none": no start yet; "live": callStateMap holds the call's
                    \* state; "ended": the stop handler has deleted it
    messages,       \* state.messages: records [sender, within]
    incident,       \* state.incident
    urgency,        \* state.urgency
    nextQuestion,   \* state.nextQuestion
    inflight,       \* running analyzeAndBroadcast invocations, each named by the
                    \* length of the transcript serialised into its request body
    issued,         \* every request ever sent (same naming), in sending order
    quiet,          \* the debounce window since the last final utterance is over
    exOpenaiWs,     \* the call's agent socket: "null", "connecting", "open", "closed"
    exFrames,       \* media events received
    exForwarded,    \* frames sent to the agent socket
    reportBody,     \* the body serialised into the request of generateReport
    reportPc,       \* generateReport: "none", "pending", "ok", "failed"
    lastPayload,    \* the last media event had a payload
    lastAnalysis    \* how the last finished analyzeAndBroadcast ended: "none",
                    \* "ok" (state written), "failed" (not ok, or thrown)

extractVars == <<callPhase, messages, incident, urgency, nextQuestion, inflight,
                 issued, quiet, exOpenaiWs, exFrames, exForwarded, reportBody,
                 reportPc, lastPayload, lastAnalysis>>

\* `nextQuestion` absent from the response body.
Undefined == "<undefined>"

\* Response bodies of /api/analyze used as inputs: the `updates` object ...
UpdateSamples ==
    { [f \in {} |-> Null],
      [location |-> "v1"],
      [location |-> Null],
      [type |-> "v2", urgency |-> "Critical"],
      [location |-> "v2", urgency |-> Null] }

\* ... and the `nextQuestion` member.
QuestionSamples == {Undefined, Null, "q1"}

\* Mutant of ReportBody: a body that does not carry the call's state.
ReportBodyBlank(msgs, inc, urg) ==
    [messages |-> <<>>, incident |-> [f \in DOMAIN inc |-> "<null>"], urgency |-> "Low"]

\* The members of the body of the /api/report request that come from the
\* call state: JSON.stringify({ messages, incident, urgency, ... }).
ReportBody(msgs, inc, urg) == [messages |-> msgs, incident |-> inc, urgency |-> urg]

ExtractInit ==
    /\ callPhase = "none"
    /\ messages = <<>>
    /\ incident = [f \in IncidentFields |-> Null]
    /\ urgency = "Low"
    /\ nextQuestion = Null
    /\ inflight = {}
    /\ issued = <<>>
    /\ quiet = TRUE
    /\ exOpenaiWs = "null"
    /\ exFrames = 0
    /\ exForwarded = 0
    /\ reportBody = ReportBody(<<>>, [f \in IncidentFields |-> Null], "Low")
    /\ reportPc = "none"
    /\ lastPayload = FALSE
    /\ lastAnalysis = "none"

\* case 'start' after `await createCallRecord`: callStateMap.set(callSid,
\* { messages: [], incident: all null, urgency: 'Low', nextQuestion: null })
\* and connectToOpenAI, which returns the connecting agent socket.
ExStart ==
    /\ callPhase = "none"
    /\ callPhase' = "live"
    /\ messages' = <<>>
    /\ incident' = [f \in IncidentFields |-> Null]
    /\ urgency' = "Low"
    /\ nextQuestion' = Null
    /\ exOpenaiWs' = "connecting"
    /\ UNCHANGED <<inflight, issued, quiet, exFrames, exForwarded, reportBody, reportPc,
                   lastPayload, lastAnalysis>>

\* openaiWs.on('open').
ExSocketOpen ==
    /\ exOpenaiWs = "connecting"
    /\ exOpenaiWs' = "open"
    /\ UNCHANGED <<callPhase, messages, incident, urgency, nextQuestion, inflight,
                   issued, quiet, exFrames, exForwarded, reportBody, reportPc,
                   lastPayload, lastAnalysis>>

\* Mutant of MediaForwards: a relay that holds frames back while an
\* extraction request is pending.
MediaForwardsIdle(ws, hasPayload, pending) == ws = "open" /\ hasPayload /\ pending = {}

\* openaiWs && openaiWs.readyState === WebSocket.OPEN && msg.media.payload:
\* the pending extraction requests play no part.
MediaForwards(ws, hasPayload, pending) == ws = "open" /\ hasPayload

\* case 'media': the frame is sent to the agent socket if that socket is
\* open and the frame has a payload; nothing else is looked at.
ExMedia(hasPayload) ==
    /\ exFrames' = exFrames + 1
    /\ lastPayload' = hasPayload
    /\ exForwarded' = IF MediaForwards(exOpenaiWs, hasPayload, inflight)
                        THEN exForwarded + 1 ELSE exForwarded
    /\ UNCHANGED <<callPhase, messages, incident, urgency, nextQuestion, inflight,
                   issued, quiet, exOpenaiWs, reportBody, reportPc, lastAnalysis>>

\* analyzeAndBroadcast up to its first await: the request body is serialised
\* from the state as it is now and the request is sent.  Nothing is checked
\* before sending.  Result: the new <<inflight, issued>>.
SendAnalysis(msgs) ==
    <<inflight \cup {Len(msgs)}, Append(issued, Len(msgs))>>

\* 'conversation.item.input_audio_transcription.completed': a final caller
\* utterance.  With a call state it is pushed and the analysis is started
\* (`void analyzeAndBroadcast`); without one nothing happens.
CallerFinal ==
    /\ IF callPhase = "live"
         THEN /\ messages' = Append(messages, [sender |-> "caller", within |-> ~quiet])
              /\ inflight' = SendAnalysis(messages')[1]
              /\ issued' = SendAnalysis(messages')[2]
              /\ quiet' = FALSE
         ELSE UNCHANGED <<messages, inflight, issued, quiet>>
    /\ UNCHANGED <<exOpenaiWs, exFrames, exForwarded, reportBody, reportPc, lastPayload,
                   lastAnalysis,
                   callPhase, incident, urgency, nextQuestion>>

\* 'response.audio_transcript.done': the agent's utterance is pushed; no
\* analysis is started.
DispatcherFinal ==
    /\ IF callPhase = "live"
         THEN messages' = Append(messages, [sender |-> "dispatcher", within |-> FALSE])
         ELSE UNCHANGED messages
    /\ UNCHANGED <<exOpenaiWs, exFrames, exForwarded, reportBody, reportPc, lastPayload,
                   lastAnalysis,
                   callPhase, incident, urgency, nextQuestion, inflight, issued, quiet>>

\* The debounce window after the last final utterance runs out.
WindowElapses ==
    /\ ~quiet
    /\ quiet' = TRUE
    /\ UNCHANGED <<exOpenaiWs, exFrames, exForwarded, reportBody, reportPc, lastPayload,
                   lastAnalysis,
                   callPhase, messages, incident, urgency, nextQuestion, inflight,
                   issued>>

\* Mutant of NewUrgency: an update without urgency resets it to the default.
NewUrgencyOrDefault(urg, updates) ==
    IF "urgency" \in DOMAIN updates /\ updates["urgency"] # Null
      THEN updates["urgency"] ELSE "Low"

\* const { urgency, ...fields } = updates; if (urgency) state.urgency = urgency
NewUrgency(urg, updates) ==
    IF "urgency" \in DOMAIN updates /\ updates["urgency"] # Null
      THEN updates["urgency"] ELSE urg

\* analyzeAndBroadcast after its awaits, response.ok and a parsed body:
\* the updates and the next question are written into the state object the
\* invocation was given (also when the call has been deleted meanwhile).
AnalysisReturns(r, hasUpdates, updates, question) ==
    /\ r \in inflight
    /\ inflight' = inflight \ {r}
    /\ IF hasUpdates
         THEN /\ urgency' = NewUrgency(urgency, updates)
              /\ incident' = MergeIncident(incident, RestFields(updates))
         ELSE UNCHANGED <<urgency, incident>>
    /\ lastAnalysis' = "ok"
    /\ nextQuestion' = IF question # Undefined THEN question ELSE nextQuestion
    /\ UNCHANGED <<exOpenaiWs, exFrames, exForwarded, reportBody, reportPc, lastPayload,
                   callPhase, messages, issued, quiet>>

\* analyzeAndBroadcast when the response is not ok (early return) or when
\* fetch / response.json() throws (caught and logged): no state change.
AnalysisFails(r) ==
    /\ r \in inflight
    /\ inflight' = inflight \ {r}
    /\ lastAnalysis' = "failed"
    /\ UNCHANGED <<exOpenaiWs, exFrames, exForwarded, reportBody, reportPc, lastPayload,
                   callPhase, messages, incident, urgency, nextQuestion, issued, quiet>>

\* Mutant of DeleteState: the stop handler leaves the call state stored.
KeepState(phase) == phase

\* callStateMap.delete(msg.stop.callSid)
DeleteState(phase) == "ended"

\* case 'stop' after `await endCallRecord`: the agent socket is closed,
\* generateReport is called without being awaited (it serialises the
\* request body from the state and sends the request before it first
\* yields), and the call state is deleted.
ExStop ==
    /\ callPhase = "live"
    /\ exOpenaiWs' = IF exOpenaiWs = "null" THEN "null" ELSE "closed"
    /\ reportBody' = ReportBody(messages, incident, urgency)
    /\ reportPc' = "pending"
    /\ callPhase' = DeleteState(callPhase)
    /\ UNCHANGED <<messages, incident, urgency, nextQuestion, inflight, issued, quiet,
                   exFrames, exForwarded, lastPayload, lastAnalysis>>

\* generateReport after its await: the response is ok and parsed (the
\* report is broadcast), or it is not ok or something throws (logged).
ExReportSettles(ok) ==
    /\ reportPc = "pending"
    /\ reportPc' = IF ok THEN "ok" ELSE "failed"
    /\ UNCHANGED <<callPhase, messages, incident, urgency, nextQuestion, inflight,
                   issued, quiet, exOpenaiWs, exFrames, exForwarded, reportBody,
                   lastPayload, lastAnalysis>>

\* ------------------------------------------------------------------------
\* Device location reports (app/history/page.tsx, POST /twilio/location).
\* The call state, its start, its extraction results and its stop are those
\* of the extraction part: page.tsx has the same statements.
\* ------------------------------------------------------------------------
VARIABLES
    geoBroadcasts   \* 'geo' messages broadcast to the dashboard

geoVars == <<geoBroadcasts>>

GeoInit == geoBroadcasts = 0

\* The `address` member of a location report; Null: the report has none.
Addresses == {Null, "a1"}

\* app.post('/twilio/location') with callSid, lat and lon present: if the
\* call has a state and the report an address, the address is written into
\* state.incident.location; the position is broadcast in any case.
LocationUpdate(address) ==
    /\ incident' = IF callPhase = "live" /\ address # Null
                     THEN [incident EXCEPT !["location"] = address]
                     ELSE incident
    /\ geoBroadcasts' = geoBroadcasts + 1
    /\ UNCHANGED <<callPhase, messages, urgency, nextQuestion, inflight, issued,
                   quiet, exOpenaiWs, exFrames, exForwarded, reportBody, reportPc,
                   lastPayload, lastAnalysis>>

\* ------------------------------------------------------------------------
\* Overlapping extraction requests of one call (server/index.ts,
\* analyzeAndBroadcast): which request's result wrote the question
\* ------------------------------------------------------------------------
VARIABLES
    questionWriters \* the requests whose result wrote state.nextQuestion, in
                    \* the order of the writes (requests are named by the length
                    \* of the transcript they carried, so later-issued means larger)

overlapVars == <<questionWriters>>

OverlapInit == questionWriters = <<>>

\* analyzeAndBroadcast after its awaits, together with the record of a
\* write to state.nextQuestion (`if (nextQuestion !== undefined)`).
AnalysisWrites(r, hasUpdates, updates, question) ==
    /\ AnalysisReturns(r, hasUpdates, updates, question)
    /\ questionWriters' = IF question # Undefined
                            THEN Append(questionWriters, r) ELSE questionWriters

\* ------------------------------------------------------------------------
\* The voice webhook (app/history/page.tsx, app.all('/twilio/voice')): the
\* TwiML each call is answered with
\* ------------------------------------------------------------------------
VARIABLES
    twiml           \* per connection: the TwiML its call was answered with:
                    \* "none" (no webhook request yet), "connect" (<Connect>
                    \* <Stream>, agent), "fork" (<Start><Stream> and <Dial>),
                    \* "say" (no dispatcher phone: apology, no stream)

hookVars == <<twiml>>

HookInit == twiml = [c \in Conns |-> "none"]

\* The TwiML built for the value of aiModeEnabled at the time of the request.
TwimlFor(aiMode, hasDispatcherPhone) ==
    IF aiMode THEN "connect"
    ELSE IF hasDispatcherPhone THEN "fork" ELSE "say"

\* app.all('/twilio/voice') for the call that will stream on connection c.
VoiceWebhook(c, hasDispatcherPhone) ==
    /\ twiml[c] = "none"
    /\ twiml' = [twiml EXCEPT ![c] = TwimlFor(aiModeEnabled, hasDispatcherPhone)]
    /\ UNCHANGED routeVars

\* ------------------------------------------------------------------------
\* Speech synthesis and barge-in for one call.  Two relays exist:
\*   "ws"   src/unnamed/part_012: Aura over a WebSocket, barge-in on media frames
\*   "http" src/unnamed/part_013: Aura over HTTP fetch, barge-in on partial
\*          transcripts
\* ------------------------------------------------------------------------
Relays == {"ws", "http"}

VARIABLES
    relay,          \* which of the two relays is running
    ttsPhase,       \* "none", "starting" (in `await createCallRecord`), "live", "ended"
    twilioOpen,     \* the Twilio socket of the call is open
    dgConn,         \* closure variable deepgramConnection: "null", "live", "finished"
    sessionPresent, \* callSessionMap holds the call's session
    speaking,       \* session.speaking (undefined counts as false)
    tts,            \* session.tts: index into synths, 0 = undefined
    synths,         \* every synthesis started: [status, sent]
    greetingTimer,  \* the 500 ms greeting timer is pending ("http" relay)
    ttsQuestion,    \* state.nextQuestion
    ttsAnalyses,    \* analyzeAndBroadcast invocations in flight
    clears,         \* 'clear' events sent to the bridge
    audioFrames,    \* media frames with a payload handled so far
    partials,       \* partial transcripts handled so far
    dgSent,         \* frames sent to Deepgram
    cancelled,      \* syntheses closed / aborted by a barge-in
    lateChunks      \* syntheses that forwarded a chunk after a barge-in cancelled them

ttsVars == <<relay, ttsPhase, twilioOpen, dgConn, sessionPresent, speaking, tts, synths,
             greetingTimer, ttsQuestion, ttsAnalyses, clears, audioFrames, partials,
             dgSent, cancelled, lateChunks>>

\* Questions the analysis endpoint can return in this part.
Questions == {"q1", "q2"}

TtsInit ==
    /\ relay \in Relays
    /\ ttsPhase = "none"
    /\ twilioOpen = TRUE
    /\ dgConn = "null"
    /\ sessionPresent = FALSE
    /\ speaking = FALSE
    /\ tts = 0
    /\ synths = <<>>
    /\ greetingTimer = FALSE
    /\ ttsQuestion = Null
    /\ ttsAnalyses = 0
    /\ clears = 0
    /\ audioFrames = 0
    /\ partials = 0
    /\ dgSent = 0
    /\ cancelled = {}
    /\ lateChunks = {}

\* case 'start' up to `await createCallRecord(...)`.
TtsStartBegin ==
    /\ ttsPhase = "none"
    /\ ttsPhase' = "starting"
    /\ UNCHANGED <<relay, twilioOpen, dgConn, sessionPresent, speaking, tts, synths,
                   greetingTimer, ttsQuestion, ttsAnalyses, clears, audioFrames,
                   partials, dgSent, cancelled, lateChunks>>

\* case 'start' after the await: session and state are stored, the Deepgram
\* connection is created (initDeepgramConnection awaits nothing), and the
\* "http" relay arms the greeting timer.
TtsStartFinish ==
    /\ ttsPhase = "starting"
    /\ ttsPhase' = "live"
    /\ sessionPresent' = TRUE
    /\ speaking' = FALSE
    /\ tts' = 0
    /\ ttsQuestion' = Null
    /\ dgConn' = "live"
    /\ greetingTimer' = (relay = "http")
    /\ UNCHANGED <<relay, twilioOpen, synths, ttsAnalyses, clears, audioFrames,
                   partials, dgSent, cancelled, lateChunks>>

\* WebSocket.close() on an Aura socket: an open socket starts the closing
\* handshake (frames already on their way are still delivered), a
\* connecting one aborts its handshake; otherwise nothing changes.
WsCloseCall(st) ==
    IF st = "open" THEN "closing"
    ELSE IF st = "connecting" THEN "aborting"
    ELSE st

\* AbortController.abort() on a fetch: a running request or body stream is
\* aborted (its pending read rejects); a settled one is not affected.
HttpAbortCall(st) ==
    IF st \in {"fetching", "streaming"} THEN "aborted" ELSE st

\* session.tts.close() / session.tts.abort() applied to synthesis i (0: none).
CancelSynth(ss, i) ==
    IF i = 0 THEN ss
    ELSE [ss EXCEPT ![i].status = IF relay = "ws" THEN WsCloseCall(@)
                                                  ELSE HttpAbortCall(@)]

\* startAuraTts of part_012 up to its return: close the current stream,
\* open a new socket, store it, set speaking.
StartAuraTtsWs ==
    IF ~sessionPresent
      THEN UNCHANGED <<speaking, tts, synths>>
      ELSE /\ synths' = Append(CancelSynth(synths, tts),
                               [status |-> "connecting", sent |-> 0])
           /\ tts' = Len(synths) + 1
           /\ speaking' = TRUE

\* startAuraTts of part_013 up to `await fetch(...)`: abort the current
\* stream, store a new controller, set speaking, send the request.
StartAuraTtsHttp ==
    IF ~sessionPresent
      THEN UNCHANGED <<speaking, tts, synths>>
      ELSE /\ synths' = Append(CancelSynth(synths, tts),
                               [status |-> "fetching", sent |-> 0])
           /\ tts' = Len(synths) + 1
           /\ speaking' = TRUE

\* A bridge that drops the clear event (not what the code does).
SendNoClear(n) == n

\* sendTwilioClear: one 'clear' event is sent on the call's socket.
SendTwilioClear(n) == n + 1

\* case 'media' of part_012.  With a Deepgram connection and a payload: if
\* the session is speaking, barge in (clear, speaking = false, close and
\* forget the synthesis); then forward the audio to Deepgram.
MediaWs(hasPayload) ==
    /\ relay = "ws"
    /\ IF dgConn # "null" /\ hasPayload
         THEN /\ audioFrames' = audioFrames + 1
              /\ dgSent' = dgSent + 1
              /\ IF sessionPresent /\ speaking
                   THEN /\ clears' = SendTwilioClear(clears)
                        /\ speaking' = FALSE
                        /\ synths' = CancelSynth(synths, tts)
                        /\ cancelled' = cancelled \cup ({tts} \ {0})
                        /\ tts' = 0
                   ELSE UNCHANGED <<clears, speaking, synths, cancelled, tts>>
         ELSE /\ audioFrames' = audioFrames + (IF hasPayload THEN 1 ELSE 0)
              /\ UNCHANGED <<dgSent, clears, speaking, synths, cancelled, tts>>
    /\ UNCHANGED <<relay, ttsPhase, twilioOpen, dgConn, sessionPresent, greetingTimer,
                   ttsQuestion, ttsAnalyses, partials, lateChunks>>

\* case 'media' of part_013.  With a Deepgram connection and a payload on
\* the inbound track the audio is forwarded to Deepgram; nothing else.
MediaHttp(hasPayload, inbound) ==
    /\ relay = "http"
    /\ audioFrames' = audioFrames + (IF hasPayload /\ inbound THEN 1 ELSE 0)
    /\ dgSent' = dgSent + (IF dgConn # "null" /\ hasPayload /\ inbound THEN 1 ELSE 0)
    /\ UNCHANGED <<relay, ttsPhase, twilioOpen, dgConn, sessionPresent, speaking, tts,
                   synths, greetingTimer, ttsQuestion, ttsAnalyses, clears, partials,
                   cancelled, lateChunks>>

\* Transcript handler of part_012, partial result: nothing is done.
PartialWs ==
    /\ relay = "ws"
    /\ partials' = partials + 1
    /\ UNCHANGED <<relay, ttsPhase, twilioOpen, dgConn, sessionPresent, speaking, tts,
                   synths, greetingTimer, ttsQuestion, ttsAnalyses, clears, audioFrames,
                   dgSent, cancelled, lateChunks>>

\* Transcript handler of part_013, partial result: barge-in if the stored
\* session is speaking (clear, speaking = false, abort and forget).
PartialHttp ==
    /\ relay = "http"
    /\ partials' = partials + 1
    /\ IF sessionPresent /\ speaking
         THEN /\ clears' = SendTwilioClear(clears)
              /\ speaking' = FALSE
              /\ synths' = CancelSynth(synths, tts)
              /\ cancelled' = cancelled \cup ({tts} \ {0})
              /\ tts' = 0
         ELSE UNCHANGED <<clears, speaking, synths, cancelled, tts>>
    /\ UNCHANGED <<relay, ttsPhase, twilioOpen, dgConn, sessionPresent, greetingTimer,
                   ttsQuestion, ttsAnalyses, audioFrames, dgSent, lateChunks>>

\* Transcript handler, final result (after `await storeTranscript`): with a
\* call state, analyzeAndBroadcast is started.
TtsFinal ==
    /\ ttsAnalyses' = ttsAnalyses + 1
    /\ UNCHANGED <<relay, ttsPhase, twilioOpen, dgConn, sessionPresent, speaking, tts,
                   synths, greetingTimer, ttsQuestion, clears, audioFrames, partials,
                   dgSent, cancelled, lateChunks>>

\* analyzeAndBroadcast after its awaits: a new, non-empty question is stored
\* and, if the session is still stored, spoken.
TtsAnalysisReturns(q) ==
    /\ ttsAnalyses > 0
    /\ ttsAnalyses' = ttsAnalyses - 1
    /\ ttsQuestion' = q
    /\ IF q # Null /\ q # ttsQuestion
         THEN IF relay = "ws" THEN StartAuraTtsWs ELSE StartAuraTtsHttp
         ELSE UNCHANGED <<speaking, tts, synths>>
    /\ UNCHANGED <<relay, ttsPhase, twilioOpen, dgConn, sessionPresent, greetingTimer,
                   clears, audioFrames, partials, dgSent, cancelled, lateChunks>>

\* The greeting timer of part_013 fires: speak the greeting if the session
\* is still stored (canSpeak is always true).
GreetingFires ==
    /\ greetingTimer
    /\ greetingTimer' = FALSE
    /\ StartAuraTtsHttp
    /\ UNCHANGED <<relay, ttsPhase, twilioOpen, dgConn, sessionPresent, ttsQuestion,
                   ttsAnalyses, clears, audioFrames, partials, dgSent, cancelled,
                   lateChunks>>

\* sendTwilioMedia for a chunk of synthesis i: the chunk is written to the
\* call's socket if that socket is open.  Result: the new <<synths, lateChunks>>.
SendTwilioMedia(i) ==
    IF twilioOpen
      THEN <<[synths EXCEPT ![i].sent = @ + 1],
             IF i \in cancelled THEN lateChunks \cup {i} ELSE lateChunks>>
      ELSE <<synths, lateChunks>>

\* ttsWs.on('open') of part_012: the text is sent.
AuraWsOpen(i) ==
    /\ relay = "ws"
    /\ synths[i].status = "connecting"
    /\ synths' = [synths EXCEPT ![i].status = "open"]
    /\ UNCHANGED <<relay, ttsPhase, twilioOpen, dgConn, sessionPresent, speaking, tts,
                   greetingTimer, ttsQuestion, ttsAnalyses, clears, audioFrames,
                   partials, dgSent, cancelled, lateChunks>>

\* ttsWs.on('message') of part_012: the chunk is forwarded.  The socket
\* emits messages while it is open and, after close(), until the closing
\* handshake completes.
AuraWsMessage(i) ==
    /\ relay = "ws"
    /\ synths[i].status \in {"open", "closing"}
    /\ synths' = SendTwilioMedia(i)[1]
    /\ lateChunks' = SendTwilioMedia(i)[2]
    /\ UNCHANGED <<relay, ttsPhase, twilioOpen, dgConn, sessionPresent, speaking, tts,
                   greetingTimer, ttsQuestion, ttsAnalyses, clears, audioFrames,
                   partials, dgSent, cancelled>>

\* ttsWs.on('close') / ttsWs.on('error') of part_012 (an error is followed
\* by the close; both handlers do the same): the handler's session object
\* gets speaking = false and tts = undefined, whichever synthesis it holds.
AuraWsClosed(i) ==
    /\ relay = "ws"
    /\ synths[i].status \in {"connecting", "open", "closing", "aborting"}
    /\ synths' = [synths EXCEPT ![i].status = "closed"]
    /\ speaking' = FALSE
    /\ tts' = 0
    /\ UNCHANGED <<relay, ttsPhase, twilioOpen, dgConn, sessionPresent, greetingTimer,
                   ttsQuestion, ttsAnalyses, clears, audioFrames, partials, dgSent,
                   cancelled, lateChunks>>

\* `finally` of part_013's startAuraTts: the session stored for the call,
\* if any, gets speaking = false and tts = undefined.  Result: <<speaking, tts>>.
HttpFinally ==
    IF sessionPresent THEN <<FALSE, 0>> ELSE <<speaking, tts>>

\* fetch of part_013 resolves with an ok response that has a body.
AuraHttpResponse(i) ==
    /\ relay = "http"
    /\ synths[i].status = "fetching"
    /\ synths' = [synths EXCEPT ![i].status = "streaming"]
    /\ UNCHANGED <<relay, ttsPhase, twilioOpen, dgConn, sessionPresent, speaking, tts,
                   greetingTimer, ttsQuestion, ttsAnalyses, clears, audioFrames,
                   partials, dgSent, cancelled, lateChunks>>

\* reader.read() of part_013 yields a chunk: it is forwarded.
AuraHttpChunk(i) ==
    /\ relay = "http"
    /\ synths[i].status = "streaming"
    /\ synths' = SendTwilioMedia(i)[1]
    /\ lateChunks' = SendTwilioMedia(i)[2]
    /\ UNCHANGED <<relay, ttsPhase, twilioOpen, dgConn, sessionPresent, speaking, tts,
                   greetingTimer, ttsQuestion, ttsAnalyses, clears, audioFrames,
                   partials, dgSent, cancelled>>

\* startAuraTts of part_013 leaves its try block: the response is not ok
\* (session fields reset, return), fetch or a read throws (AbortError after
\* abort(), or a network error), or the body ends; then `finally` runs.
AuraHttpSettles(i, notOk) ==
    /\ relay = "http"
    /\ \/ synths[i].status = "fetching"
       \/ synths[i].status \in {"streaming", "aborted"} /\ ~notOk
    /\ synths' = [synths EXCEPT ![i].status = "done"]
    /\ speaking' = IF notOk THEN FALSE ELSE HttpFinally[1]
    /\ tts' = IF notOk THEN 0 ELSE HttpFinally[2]
    /\ UNCHANGED <<relay, ttsPhase, twilioOpen, dgConn, sessionPresent, greetingTimer,
                   ttsQuestion, ttsAnalyses, clears, audioFrames, partials, dgSent,
                   cancelled, lateChunks>>

\* Session cleanup of 'stop' and of the socket's 'close' / 'error': part_012
\* closes the stored synthesis; part_013 closes it only `if (readyState ===
\* WebSocket.OPEN)`, which an AbortController never satisfies, and forgets it.
\* Result: the new <<synths, tts>>.
CleanupSession ==
    IF ~sessionPresent THEN <<synths, tts>>
    ELSE IF relay = "ws" THEN <<CancelSynth(synths, tts), tts>>
    ELSE <<synths, 0>>

\* case 'stop' after `await endCallRecord(...)`.
TtsStop ==
    /\ ttsPhase = "live"
    /\ ttsPhase' = "ended"
    /\ dgConn' = IF dgConn = "null" THEN "null" ELSE "finished"
    /\ synths' = CleanupSession[1]
    /\ tts' = CleanupSession[2]
    /\ sessionPresent' = FALSE
    /\ UNCHANGED <<relay, twilioOpen, speaking, greetingTimer, ttsQuestion, ttsAnalyses,
                   clears, audioFrames, partials, dgSent, cancelled, lateChunks>>

\* ws.on('close') / ws.on('error') of the Twilio socket.
TtsClose ==
    /\ twilioOpen
    /\ twilioOpen' = FALSE
    /\ dgConn' = IF dgConn = "null" THEN "null" ELSE "finished"
    /\ synths' = IF ttsPhase = "none" THEN synths ELSE CleanupSession[1]
    /\ tts' = IF ttsPhase = "none" THEN tts ELSE CleanupSession[2]
    /\ sessionPresent' = FALSE
    /\ UNCHANGED <<relay, ttsPhase, speaking, greetingTimer, ttsQuestion, ttsAnalyses,
                   clears, audioFrames, partials, dgSent, cancelled, lateChunks>>

\* ------------------------------------------------------------------------
\* Action gate of one simulated call  (server/index.ts: runAISimulation,
\* detectAndCreateActions, POST /api/action).  The call's messages and
\* incident are not represented here; neither is read by the gate.
\* ------------------------------------------------------------------------
\* `for (let turn = 0; turn < 8; turn++)`
MaxTurns == 8

\* The dispatchPatterns array has four entries, tried in order.
NumPatterns == 4

\* Utterances are sequences of lower-case words (the patterns carry /i).
\* Words that a pattern's alternatives accept at a given place:
DispatchVerbs == {"dispatch", "dispatching"}

SendVerbs == {"send", "sending"}

\* (\d+)
Numbers == {"2"}

\* (police|officer|unit|car|ambulance|fire|emt|paramedic|truck), unanchored
\* at its end, so plurals match as well
TypeWords == {"police", "officer", "officers", "unit", "units", "car", "cars",
              "ambulance", "ambulances", "fire", "emt", "paramedic", "paramedics",
              "truck", "trucks"}

\* (police|ambulance|fire) followed by white space
ServiceWords == {"police", "ambulance", "fire"}

\* (?:unit|truck|car)s? between white space
VehicleWords == {"unit", "units", "truck", "trucks", "car", "cars"}

\* Word i of utterance u, "" beyond its end.
Word(u, i) == IF i \in 1..Len(u) THEN u[i] ELSE ""

\* /dispatch(?:ing)?\s+(\d+)?\s*(police|...)/i and /send(?:ing)?\s+.../i:
\* the verb, an optional number, a unit type.
VerbThenUnits(u, verbs) ==
    \E i \in 1..Len(u) :
        /\ u[i] \in verbs
        /\ \/ Word(u, i + 1) \in TypeWords
           \/ Word(u, i + 1) \in Numbers /\ Word(u, i + 2) \in TypeWords

\* /(\d+)?\s*(police|ambulance|fire)\s+(?:unit|truck|car)s?\s+(?:are|is)\s+
\*  (?:on\s+(?:the|their)\s+way|en\s+route|dispatched)/i
UnitsOnTheWay(u) ==
    \E i \in 1..Len(u) :
        /\ u[i] \in ServiceWords
        /\ Word(u, i + 1) \in VehicleWords
        /\ Word(u, i + 2) \in {"are", "is"}
        /\ \/ Word(u, i + 3) = "on" /\ Word(u, i + 4) \in {"the", "their"}
                                    /\ Word(u, i + 5) = "way"
           \/ Word(u, i + 3) = "en" /\ Word(u, i + 4) = "route"
           \/ Word(u, i + 3) = "dispatched"

\* /help\s+is\s+on\s+(?:the|its)\s+way/i
HelpOnTheWay(u) ==
    \E i \in 1..Len(u) :
        /\ u[i] = "help" /\ Word(u, i + 1) = "is" /\ Word(u, i + 2) = "on"
        /\ Word(u, i + 3) \in {"the", "its"} /\ Word(u, i + 4) = "way"

\* text.match(dispatchPatterns[p - 1]) is not null.
PatternMatches(p, u) ==
    CASE p = 1 -> VerbThenUnits(u, DispatchVerbs)
      [] p = 2 -> VerbThenUnits(u, SendVerbs)
      [] p = 3 -> UnitsOnTheWay(u)
      [] OTHER -> HelpOnTheWay(u)

\* Dispatcher responses used as inputs.
Utterances ==
    { <<"i'm", "dispatching", "2", "units", "to", "5th", "and", "main">>,
      <<"dispatching", "police", "help", "is", "on", "the", "way">>,
      <<"sending", "2", "fire", "trucks", "help", "is", "on", "its", "way">>,
      <<"2", "ambulance", "units", "are", "on", "the", "way">>,
      <<"help", "is", "on", "the", "way">>,
      <<"sending", "an", "ambulance">>,
      <<"can", "you", "tell", "me", "where", "you", "are">> }

RECURSIVE DetectNoBreak(_, _, _, _)
\* A scan without the `break`: one action per matching pattern (not what
\* the code does).
DetectNoBreak(p, acts, st, u) ==
    IF p > NumPatterns THEN <<acts, st>>
    ELSE IF PatternMatches(p, u)
      THEN DetectNoBreak(p + 1, Append(acts, "pending"), "pending_action", u)
      ELSE DetectNoBreak(p + 1, acts, st, u)

RECURSIVE DetectFrom(_, _, _, _)
\* The loop of detectAndCreateActions from pattern p on: the first matching
\* pattern pushes one pending action, sets the status and breaks.
\* Result: the new <<actions, status>>.
DetectFrom(p, acts, st, u) ==
    IF p > NumPatterns THEN <<acts, st>>
    ELSE IF PatternMatches(p, u)
      THEN <<Append(acts, "pending"), "pending_action">>
      ELSE DetectFrom(p + 1, acts, st, u)

\* detectAndCreateActions(simCall, text)
DetectAndCreateActions(acts, st, u) == DetectFrom(1, acts, st, u)

VARIABLES
    simPc,          \* position of runAISimulation: "none", "initialSleep",
                    \* "analysis0", "dispatcherTurn", "callerTurn", "analysis",
                    \* "ending", "ended"
    simStatus,      \* simCall.status
    simActions,     \* simCall.actions: the status of each action, in order
    turn,           \* loop variable of the conversation loop
    lastText,       \* text of the last detectAndCreateActions call
    resolves,       \* POST /api/action requests handled so far
    lastFound,      \* the last such request named a stored call and one of its actions
    lastReply       \* what the sender of the last such request was answered

gateVars == <<simPc, simStatus, simActions, turn, lastText, resolves, lastFound, lastReply>>

\* Decision values a request to /api/action can carry.  The handler stores
\* req.body.decision as it comes (`decision as 'approved' | 'rejected'` is a
\* compile-time cast): the two values the dashboard sends, the name of the
\* third status, and a string that names no status.
Decisions == {"approved", "rejected", "pending", "deferred"}

GateInit ==
    /\ simPc = "none"
    /\ simStatus = "active"
    /\ simActions = <<>>
    /\ turn = 0
    /\ lastText = <<>>
    /\ resolves = 0
    /\ lastFound = FALSE
    /\ lastReply = "none"

\* runAISimulation up to `await sleep(1500)`: the call is created with
\* status 'active' and no actions, and stored in aiSimulationCalls.
SimStart ==
    /\ simPc = "none"
    /\ simPc' = "initialSleep"
    /\ simStatus' = "active"
    /\ simActions' = <<>>
    /\ UNCHANGED <<turn, lastText, resolves, lastFound, lastReply>>

\* The caller's initial message is added and the first analysis awaited.
SimInitialMessage ==
    /\ simPc = "initialSleep"
    /\ simPc' = "analysis0"
    /\ UNCHANGED <<simStatus, simActions, turn, lastText, resolves, lastFound, lastReply>>

\* The first analysis returns; the loop starts with turn = 0.
SimFirstAnalysisDone ==
    /\ simPc = "analysis0"
    /\ turn' = 0
    /\ simPc' = "dispatcherTurn"
    /\ UNCHANGED <<simStatus, simActions, lastText, resolves, lastFound, lastReply>>

\* generateDispatcherResponse returns a text: it is added to the call and
\* scanned for dispatch actions.
SimDispatcherTurn(u) ==
    /\ simPc = "dispatcherTurn"
    /\ simActions' = DetectAndCreateActions(simActions, simStatus, u)[1]
    /\ simStatus' = DetectAndCreateActions(simActions, simStatus, u)[2]
    /\ lastText' = u
    /\ simPc' = "callerTurn"
    /\ UNCHANGED <<turn, resolves, lastFound, lastReply>>

\* generateDispatcherResponse returns nothing: `break`.
SimDispatcherSilent ==
    /\ simPc = "dispatcherTurn"
    /\ simPc' = "ending"
    /\ UNCHANGED <<simStatus, simActions, turn, lastText, resolves, lastFound, lastReply>>

\* generateCallerResponse returns: an empty or closing response ends the
\* loop, any other is added and analysed.
SimCallerTurn(closing) ==
    /\ simPc = "callerTurn"
    /\ simPc' = IF closing THEN "ending" ELSE "analysis"
    /\ UNCHANGED <<simStatus, simActions, turn, lastText, resolves, lastFound, lastReply>>

\* The analysis at the end of the loop body returns; `turn++`, `turn < 8`.
SimAnalysisDone ==
    /\ simPc = "analysis"
    /\ turn' = turn + 1
    /\ simPc' = IF turn + 1 < MaxTurns THEN "dispatcherTurn" ELSE "ending"
    /\ UNCHANGED <<simStatus, simActions, lastText, resolves, lastFound, lastReply>>

\* After the loop and `await sleep(1000)`: simCall.status = 'completed'.
SimEnd ==
    /\ simPc = "ending"
    /\ simStatus' = "completed"
    /\ simPc' = "ended"
    /\ UNCHANGED <<simActions, turn, lastText, resolves, lastFound, lastReply>>

\* simCall.actions.filter(a => a.status === 'pending').length
PendingCount(acts) == Cardinality({i \in 1..Len(acts) : acts[i] = "pending"})

\* The answer of app.post('/api/action'): the same for a request that
\* resolved an action and for one that named no stored call or action.
ActionReply(found) == "success"

\* The answer of the dashboard's /api/action route, which forwards the
\* request and reports a failure only if the backend's answer is not ok.
ProxyReply(backend) == IF backend = "success" THEN "success" ELSE "error"

\* app.post('/api/action'): for a stored call and an action of it, the
\* action takes the decision and the call becomes 'active' if no action is
\* pending; any other request changes nothing.  The answer is always
\* { success: true }.
Resolve(callKnown, actionId, decision) ==
    /\ resolves' = resolves + 1
    /\ lastFound' = (callKnown /\ simPc # "none" /\ actionId \in 1..Len(simActions))
    /\ lastReply' = ProxyReply(ActionReply(lastFound'))
    /\ IF lastFound'
         THEN /\ simActions' = [simActions EXCEPT ![actionId] = decision]
              /\ simStatus' = IF PendingCount(simActions') = 0 THEN "active"
                                                               ELSE simStatus
         ELSE UNCHANGED <<simActions, simStatus>>
    /\ UNCHANGED <<simPc, turn, lastText>>

\* ------------------------------------------------------------------------
\* The agent's utterances on a real agent-mode call (app/history/page.tsx)
\* ------------------------------------------------------------------------
VARIABLES
    agentSpoken,    \* the last 'response.audio_transcript.done' event handled:
                    \* its connection, its transcript, and whether a message
                    \* was pushed to the call state
    pageQuestion,   \* state.nextQuestion of the call
    dashboardGot    \* what was broadcast to the human dispatcher's dashboard
                    \* for the call: a subset of {"transcript", "analysis"}

agentVars == <<agentSpoken, pageQuestion, dashboardGot>>

AgentInit ==
    /\ agentSpoken = [conn |-> "none", text |-> <<>>, stored |-> FALSE]
    /\ pageQuestion = Null
    /\ dashboardGot = {}

\* The actions of the monitor entry of a real call: created empty at start,
\* and no statement of the server adds to them.
AiCallActions(s) == <<>>

\* storeTranscript of page.tsx for a final transcript of call s: the mode is
\* read from the stored call state (`callState?.isAiMode ?? false`); an
\* agent-mode transcript goes to the monitor if the call has a monitor
\* entry, any other transcript to the dashboard.
TranscriptAudience(s) ==
    IF s \in DOMAIN callStateMap /\ callStateMap[s].isAiMode
      THEN IF s \in DOMAIN aiCallsMap THEN "monitor" ELSE "nobody"
      ELSE "dashboard"

\* handleOpenAIEvent, case 'response.audio_transcript.done' with transcript
\* u on the agent socket of connection c: the transcript is stored and, if
\* the call state exists, pushed to its messages as a dispatcher message.
\* The transcript is not scanned for dispatch patterns and the monitor entry
\* of the call is not touched.
AgentTranscriptDone(c, u) ==
    /\ openaiWs[c] = "open"
    /\ agentSpoken' = [conn |-> c, text |-> u,
                       stored |-> callSid[c] \in DOMAIN callStateMap]
    /\ dashboardGot' = IF TranscriptAudience(callSid[c]) = "dashboard"
                         THEN dashboardGot \cup {"transcript"} ELSE dashboardGot
    /\ UNCHANGED routeVars
    /\ UNCHANGED pageQuestion

\* Whether analyzeAndBroadcast of page.tsx starts a synthesis for the
\* question it has stored: none of its branches does, in either mode (the
\* file has no synthesis function).
PageStartsSynthesis(isAiMode, prev, question) == FALSE

\* analyzeAndBroadcast of page.tsx after its awaits, for the live call of
\* connection c, with `nextQuestion` of the response body being q: the
\* question is stored unless it is undefined; then the result is routed to
\* the monitor (agent mode) or to the dashboard (human mode).
PageAnalysisReturns(c, q) ==
    /\ callSid[c] \in DOMAIN callStateMap
    /\ pageQuestion' = IF q # Undefined THEN q ELSE pageQuestion
    /\ dashboardGot' = IF callStateMap[callSid[c]].isAiMode
                         THEN dashboardGot ELSE dashboardGot \cup {"analysis"}
    /\ UNCHANGED routeVars
    /\ UNCHANGED agentSpoken

\* ------------------------------------------------------------------------
\* The call registry of the agent-mode server (server/index.ts): start, stop
\* and close events carrying any call id
\* ------------------------------------------------------------------------
MaxRegEvents == 3

MaxRegMessages == 1

\* Twilio sockets and the call ids their events may carry.
RegConns == {"t1", "t2"}

RegCallIds == {"CA1", "CA2"}

VARIABLES
    regWsOpen,      \* per socket: no 'close' event yet
    regCallSid,     \* per socket: closure variable callSid ("null" before a start)
    regOpenaiWs,    \* per socket: closure variable openaiWs (0 = null, else an
                    \* index of regSockets)
    regStateMap,    \* callStateMap: call id -> [messages: number of messages]
    regSessionMap,  \* callSessionMap: call id -> [twilioWs, openaiWs]
    regSockets,     \* every agent socket connectToOpenAI has created, in order:
                    \* [call, status], status "open" or "closed"
    regPending,     \* start and stop handlers waiting at their await:
                    \* [n, conn, kind, sid]
    regEvents,      \* start and stop events received so far
    regReports,     \* per call id: generateReport calls
    regCallEnded,   \* per call id: 'call_ended' messages broadcast to the dashboard
    regLastError    \* the last error a handler caught or logged: [call, kind]

regVars == <<regWsOpen, regCallSid, regOpenaiWs, regStateMap, regSessionMap,
             regSockets, regPending, regEvents, regReports, regCallEnded,
             regLastError>>

RegInit ==
    /\ regWsOpen = [c \in RegConns |-> TRUE]
    /\ regCallSid = [c \in RegConns |-> "null"]
    /\ regOpenaiWs = [c \in RegConns |-> 0]
    /\ regStateMap = EmptyMap
    /\ regSessionMap = EmptyMap
    /\ regSockets = <<>>
    /\ regPending = {}
    /\ regEvents = 0
    /\ regReports = [s \in RegCallIds |-> 0]
    /\ regCallEnded = [s \in RegCallIds |-> 0]
    /\ regLastError = [call |-> "null", kind |-> "none"]

\* case 'start' up to 'await createCallRecord': the closure variable takes
\* the call id of the event; the handler does not look the id up.
RegStartBegin(c, s) ==
    /\ regEvents' = regEvents + 1
    /\ regCallSid' = [regCallSid EXCEPT ![c] = s]
    /\ regPending' = regPending \cup
                       {[n |-> regEvents', conn |-> c, kind |-> "start", sid |-> s]}
    /\ UNCHANGED <<regWsOpen, regOpenaiWs, regStateMap, regSessionMap, regSockets,
                   regReports, regCallEnded, regLastError>>

\* callStateMap.set(callSid, { messages: [], ... }): a fresh state is stored
\* under the call id, in place of any state already stored under it.
StartState(m, s) == MapSet(m, s, [messages |-> 0])

\* case 'start' after the await: a fresh call state, a new agent socket and
\* a session pointing to it are stored under the call id.
RegStartAfterRecord(p) ==
    /\ p \in regPending /\ p.kind = "start"
    /\ regPending' = regPending \ {p}
    /\ regStateMap' = StartState(regStateMap, p.sid)
    /\ regSockets' = Append(regSockets, [call |-> p.sid, status |-> "open"])
    /\ regOpenaiWs' = [regOpenaiWs EXCEPT ![p.conn] = Len(regSockets')]
    /\ regSessionMap' = MapSet(regSessionMap, p.sid,
                               [twilioWs |-> p.conn, openaiWs |-> Len(regSockets')])
    /\ UNCHANGED <<regWsOpen, regCallSid, regEvents, regReports, regCallEnded, regLastError>>

\* handleOpenAIEvent, a completed transcript on agent socket i: a message is
\* pushed to the state stored under the socket's call id, if there is one.
RegTranscript(i) ==
    /\ i \in DOMAIN regSockets /\ regSockets[i].status = "open"
    /\ regSockets[i].call \in DOMAIN regStateMap
    /\ regStateMap' = [regStateMap EXCEPT ![regSockets[i].call].messages = @ + 1]
    /\ UNCHANGED <<regWsOpen, regCallSid, regOpenaiWs, regSessionMap, regSockets,
                   regPending, regEvents, regReports, regCallEnded, regLastError>>

\* case 'stop' up to 'await endCallRecord'.
RegStopBegin(c, s) ==
    /\ regEvents' = regEvents + 1
    /\ regPending' = regPending \cup
                       {[n |-> regEvents', conn |-> c, kind |-> "stop", sid |-> s]}
    /\ UNCHANGED <<regWsOpen, regCallSid, regOpenaiWs, regStateMap, regSessionMap,
                   regSockets, regReports, regCallEnded, regLastError>>

\* Mutant of RegCloseSessionSocket: every agent socket is closed.
RegCloseEverySocket(s) ==
    [i \in DOMAIN regSockets |-> [regSockets[i] EXCEPT !.status = "closed"]]

\* session.openaiWs.close() on the session stored under call id s, if any.
RegCloseSessionSocket(s) ==
    IF s \in DOMAIN regSessionMap
      THEN [regSockets EXCEPT ![regSessionMap[s].openaiWs].status = "closed"]
      ELSE regSockets

\* Mutant of StopReports: a stop requests no report.
StopReportsNever(m, s) == 0

\* Mutant of StopReports: a report is requested whether or not a state is stored.
StopReportsAlways(m, s) == 1

\* if (finalState) void generateReport(...): the number of reports a stop
\* for call id s requests.
StopReports(m, s) == IF s \in DOMAIN m THEN 1 ELSE 0

\* case 'stop' after the await: 'call_ended' is broadcast, the session's
\* agent socket is closed and the session removed, a report is requested if
\* a call state is stored, and the call state is removed.
RegStopAfterEnd(p) ==
    /\ p \in regPending /\ p.kind = "stop"
    /\ regPending' = regPending \ {p}
    /\ regCallEnded' = [regCallEnded EXCEPT ![p.sid] = @ + 1]
    /\ regSockets' = RegCloseSessionSocket(p.sid)
    /\ regSessionMap' = MapDelete(regSessionMap, p.sid)
    /\ regReports' = [regReports EXCEPT ![p.sid] = @ + StopReports(regStateMap, p.sid)]
    /\ regStateMap' = MapDelete(regStateMap, p.sid)
    /\ UNCHANGED <<regWsOpen, regCallSid, regOpenaiWs, regEvents, regLastError>>

\* ws.on('close'): if a start set the closure variable, the session stored
\* under that call id has its agent socket closed and is removed.
RegWsClose(c) ==
    /\ regWsOpen' = [regWsOpen EXCEPT ![c] = FALSE]
    /\ IF regCallSid[c] # "null"
         THEN /\ regSockets' = RegCloseSessionSocket(regCallSid[c])
              /\ regSessionMap' = MapDelete(regSessionMap, regCallSid[c])
         ELSE UNCHANGED <<regSockets, regSessionMap>>
    /\ UNCHANGED <<regCallSid, regOpenaiWs, regStateMap, regPending, regEvents,
                   regReports, regCallEnded, regLastError>>


\* ws.on('message') with a message that is not JSON: JSON.parse throws inside
\* the try block and the catch block logs the error.
RegMalformed(c) ==
    /\ regLastError' = [call |-> regCallSid[c], kind |-> "message"]
    /\ UNCHANGED <<regWsOpen, regCallSid, regOpenaiWs, regStateMap, regSessionMap,
                   regSockets, regPending, regEvents, regReports, regCallEnded>>

\* analyzeAndBroadcast for call id s when the request throws or the answer is
\* not ok: the error is logged and the function returns.
RegAnalysisFails(s) ==
    /\ s \in DOMAIN regStateMap /\ regStateMap[s].messages > 0
    /\ regLastError' = [call |-> s, kind |-> "analysis"]
    /\ UNCHANGED <<regWsOpen, regCallSid, regOpenaiWs, regStateMap, regSessionMap,
                   regSockets, regPending, regEvents, regReports, regCallEnded>>

\* generateReport for call id s when the request throws or the answer is not
\* ok: the error is logged and the function returns.
RegReportFails(s) ==
    /\ regReports[s] > 0
    /\ regLastError' = [call |-> s, kind |-> "report"]
    /\ UNCHANGED <<regWsOpen, regCallSid, regOpenaiWs, regStateMap, regSessionMap,
                   regSockets, regPending, regEvents, regReports, regCallEnded>>

\* openaiWs.on('error') then 'close' on agent socket i: both handlers log; the
\* socket is no longer open.
RegAgentSocketError(i) ==
    /\ i \in DOMAIN regSockets /\ regSockets[i].status = "open"
    /\ regSockets' = [regSockets EXCEPT ![i].status = "closed"]
    /\ regLastError' = [call |-> regSockets[i].call, kind |-> "agent"]
    /\ UNCHANGED <<regWsOpen, regCallSid, regOpenaiWs, regStateMap, regSessionMap,
                   regPending, regEvents, regReports, regCallEnded>>

\* ws.on('error'): if a start set the closure variable, the session stored
\* under that call id has its agent socket closed and is removed.
RegWsError(c) ==
    /\ regLastError' = [call |-> regCallSid[c], kind |-> "twilio"]
    /\ IF regCallSid[c] # "null"
         THEN /\ regSockets' = RegCloseSessionSocket(regCallSid[c])
              /\ regSessionMap' = MapDelete(regSessionMap, regCallSid[c])
         ELSE UNCHANGED <<regSockets, regSessionMap>>
    /\ UNCHANGED <<regWsOpen, regCallSid, regOpenaiWs, regStateMap, regPending,
                   regEvents, regReports, regCallEnded>>

\* ------------------------------------------------------------------------
\* Final transcripts of one human-mode call (app/history/page.tsx and
\* part_013, Deepgram 'Transcript' handler)
\* ------------------------------------------------------------------------
MaxFinals == 4

MaxOrderPartials == 1

VARIABLES
    finalsArrived,  \* final 'Transcript' events received so far; the events are
                    \* numbered in arrival order
    storing,        \* events whose handler waits at `await storeTranscript(...)`
    transcript,     \* state.messages: the numbers of the events pushed, in order
                    \* (a final event by its number n, a partial event by -n)
    stateStored,    \* callStateMap holds the call's state
    partialsArrived,\* interim 'Transcript' events received so far
    analysed        \* the events for which analyzeAndBroadcast was called, in order

orderVars == <<finalsArrived, storing, transcript, stateStored, partialsArrived,
               analysed>>

OrderInit ==
    /\ finalsArrived = 0
    /\ storing = {}
    /\ transcript = <<>>
    /\ stateStored = TRUE
    /\ partialsArrived = 0
    /\ analysed = <<>>

\* if (isFinal) { ...; if (state) { state.messages.push(...); void
\* analyzeAndBroadcast(...) } }: whether the handler of an event pushes a
\* message and starts an extraction.
PushesMessage(isFinal, stored) == isFinal /\ stored

\* 'Transcript' handler for a final event up to `await storeTranscript`:
\* the transcript is broadcast and its insert is sent to the database.
FinalArrives ==
    /\ finalsArrived' = finalsArrived + 1
    /\ storing' = storing \cup {finalsArrived'}
    /\ UNCHANGED <<transcript, stateStored, partialsArrived, analysed>>

\* The handler of event n after the await: the insert has answered (or
\* failed, which storeTranscript catches); if the call state exists the
\* utterance is pushed to state.messages.  The inserts of different events
\* answer in any order.
StoreDone(n) ==
    /\ n \in storing
    /\ storing' = storing \ {n}
    /\ transcript' = IF PushesMessage(TRUE, stateStored)
                        THEN Append(transcript, n) ELSE transcript
    /\ analysed' = IF PushesMessage(TRUE, stateStored)
                      THEN Append(analysed, n) ELSE analysed
    /\ UNCHANGED <<finalsArrived, stateStored, partialsArrived>>

\* 'Transcript' handler for an interim event with a non-empty transcript:
\* the else branch logs (page.tsx) or handles barge-in (part_013); it
\* neither pushes a message nor calls analyzeAndBroadcast.
PartialArrives ==
    /\ partialsArrived' = partialsArrived + 1
    /\ transcript' = IF PushesMessage(FALSE, stateStored)
                        THEN Append(transcript, -partialsArrived') ELSE transcript
    /\ analysed' = IF PushesMessage(FALSE, stateStored)
                      THEN Append(analysed, -partialsArrived') ELSE analysed
    /\ UNCHANGED <<finalsArrived, storing, stateStored>>

\* case 'stop': callStateMap.delete(callSid).
OrderStop ==
    /\ stateStored
    /\ stateStored' = FALSE
    /\ UNCHANGED <<finalsArrived, storing, transcript, partialsArrived, analysed>>

\* ------------------------------------------------------------------------
\* The dispatcher dashboard's extraction trigger (app/components/
\* Dashboard.tsx): transcript messages, the debounce effect and
\* callAnalysisApi
\* ------------------------------------------------------------------------
MaxDashMessages == 3

MaxDashReloads == 1

VARIABLES
    dashMessages,       \* state `messages`: [id, isPartial] in arrival order
    dashDirty,          \* a dependency of the debounce effect (messages,
                        \* incidentDetails, urgency, currentCallSid) was set and
                        \* the render that commits it has not run its effects yet
    dashTimer,          \* debounceTimerRef: <<>> or <<the `messages` the pending
                        \* timer's callAnalysisApi closure was rendered with>>
    dashLastAnalyzedId, \* lastAnalyzedIdRef.current (0 = null)
    dashRequests,       \* the /api/analyze requests issued, in order:
                        \* [id of the latest message, number of messages sent]
    dashInflight,       \* requests of this page load whose answer is awaited
    dashStored,         \* `messages` as saved in localStorage
    dashReloads         \* page loads after the first

dashVars == <<dashMessages, dashDirty, dashTimer, dashLastAnalyzedId,
              dashRequests, dashInflight, dashStored, dashReloads>>

\* First page load with an empty localStorage, after the mount effects.
DashInit ==
    /\ dashMessages = <<>>
    /\ dashDirty = TRUE
    /\ dashTimer = <<>>
    /\ dashLastAnalyzedId = 0
    /\ dashRequests = <<>>
    /\ dashInflight = 0
    /\ dashStored = <<>>
    /\ dashReloads = 0

\* ws.onmessage, type 'transcript': the message is appended (the server
\* gives every transcript a fresh id); React schedules a render.
DashTranscript(isPartial) ==
    /\ dashMessages' = Append(dashMessages,
                              [id |-> Len(dashMessages) + 1, isPartial |-> isPartial])
    /\ dashDirty' = TRUE
    /\ UNCHANGED <<dashTimer, dashLastAnalyzedId, dashRequests, dashInflight,
                   dashStored, dashReloads>>

\* The effects of the render that commits the new state: the state is saved
\* to localStorage; the debounce effect's cleanup clears the pending timer
\* and the effect sets a new one whose callback closes over this render's
\* callAnalysisApi.
DashCommit ==
    /\ dashDirty
    /\ dashDirty' = FALSE
    /\ dashStored' = dashMessages
    /\ dashTimer' = <<dashMessages>>
    /\ UNCHANGED <<dashMessages, dashLastAnalyzedId, dashRequests, dashInflight,
                   dashReloads>>

\* Whether callAnalysisApi, rendered with messages msgs, issues a request:
\* the latest message exists, is final and is not the one last analysed.
IssuesRequest(msgs, lastId) ==
    /\ msgs # <<>>
    /\ ~msgs[Len(msgs)].isPartial
    /\ lastId # msgs[Len(msgs)].id

\* The debounce timer fires DEBOUNCE_MS after it was set: callAnalysisApi up
\* to its await.
DashTimerFires ==
    /\ dashTimer # <<>>
    /\ dashTimer' = <<>>
    /\ LET msgs == dashTimer[1] IN
         IF IssuesRequest(msgs, dashLastAnalyzedId)
           THEN /\ dashLastAnalyzedId' = msgs[Len(msgs)].id
                /\ dashRequests' = Append(dashRequests,
                                          [id |-> msgs[Len(msgs)].id, sent |-> Len(msgs)])
                /\ dashInflight' = dashInflight + 1
           ELSE UNCHANGED <<dashLastAnalyzedId, dashRequests, dashInflight>>
    /\ UNCHANGED <<dashMessages, dashDirty, dashStored, dashReloads>>

\* callAnalysisApi after its awaits: updates of the answer are written to
\* incidentDetails / urgency (changes = TRUE), which schedules a render; a
\* failed request or an answer without updates sets no dependency.
DashAnswer(changes) ==
    /\ dashInflight > 0
    /\ dashInflight' = dashInflight - 1
    /\ dashDirty' = (dashDirty \/ changes)
    /\ UNCHANGED <<dashMessages, dashTimer, dashLastAnalyzedId, dashRequests,
                   dashStored, dashReloads>>

\* The page is loaded again: the refs start as null, the pending timer and
\* awaited answers are gone with the old page, and the mount effect restores
\* `messages` from localStorage.
DashReload ==
    /\ dashReloads' = dashReloads + 1
    /\ dashMessages' = dashStored
    /\ dashLastAnalyzedId' = 0
    /\ dashTimer' = <<>>
    /\ dashInflight' = 0
    /\ dashDirty' = TRUE
    /\ UNCHANGED <<dashRequests, dashStored>>

\* ------------------------------------------------------------------------
\* Specifications
\* ------------------------------------------------------------------------
vars == <<routeVars, mergeVars, extractVars, ttsVars, gateVars, agentVars, regVars, geoVars, orderVars, dashVars, overlapVars, hookVars>>

\* The parts share no state: a step of one part leaves the others alone.
nonRouteVars == <<mergeVars, extractVars, ttsVars, gateVars, agentVars, regVars, geoVars, orderVars, dashVars, overlapVars, hookVars>>

nonMergeVars == <<routeVars, extractVars, ttsVars, gateVars, agentVars, regVars, geoVars, orderVars, dashVars, overlapVars, hookVars>>

nonExtractVars == <<routeVars, mergeVars, ttsVars, gateVars, agentVars, regVars, geoVars, orderVars, dashVars, overlapVars, hookVars>>

nonTtsVars == <<routeVars, mergeVars, extractVars, gateVars, agentVars, regVars, geoVars, orderVars, dashVars, overlapVars, hookVars>>

nonGateVars == <<routeVars, mergeVars, extractVars, ttsVars, agentVars, regVars, geoVars, orderVars, dashVars, overlapVars, hookVars>>

nonRouteAgentVars == <<mergeVars, extractVars, ttsVars, gateVars, regVars, geoVars, orderVars, dashVars, overlapVars, hookVars>>

nonRegVars == <<routeVars, mergeVars, extractVars, ttsVars, gateVars, agentVars, geoVars, orderVars, dashVars, overlapVars, hookVars>>

nonExtractGeoVars == <<routeVars, mergeVars, ttsVars, gateVars, agentVars, regVars, orderVars, dashVars, overlapVars, hookVars>>

nonOrderVars == <<routeVars, mergeVars, extractVars, ttsVars, gateVars, agentVars, regVars, geoVars, dashVars, overlapVars, hookVars>>

nonExtractOverlapVars == <<routeVars, mergeVars, ttsVars, gateVars, agentVars, regVars, geoVars, orderVars, dashVars, hookVars>>

nonRouteHookVars == <<mergeVars, extractVars, ttsVars, gateVars, agentVars, regVars, geoVars, orderVars, dashVars, overlapVars>>

nonDashVars == <<routeVars, mergeVars, extractVars, ttsVars, gateVars, agentVars, regVars, geoVars, orderVars, overlapVars, hookVars>>

\* Bounds of the extraction, synthesis and gate parts.
MaxMessages == 3

MaxSynth == 2

MaxChunks == 2

MaxPartials == 2

MaxAnalyses == 2

MaxActions == 2

MaxResolves == 2

\* The server after construction: no connection has started, no call exists.
Init == RouteInit /\ MergeIdle /\ ExtractInit /\ TtsInit /\ GateInit /\ AgentInit /\ RegInit /\ GeoInit /\ OrderInit /\ DashInit /\ OverlapInit /\ HookInit

\* The bridge's protocol on one socket: one start, then media, then one stop,
\* all while the socket is open; handler continuations run whenever their
\* awaited promise resolves, also after later messages or the close.
Next ==
    \/ /\ UNCHANGED nonRouteVars
       /\ \E enabled \in BOOLEAN : ToggleAiMode(enabled)
    \/ /\ UNCHANGED nonRouteVars
       /\ \E c \in Conns : wsOpen[c] /\ startPc[c] = "idle" /\ StartBegin(c, CallOf(c))
    \/ /\ UNCHANGED nonRouteVars
       /\ \E c \in Conns : StartAfterRecord(c)
    \/ /\ UNCHANGED nonRouteVars
       /\ \E c \in Conns : StartAfterDeepgram(c)
    \/ /\ UNCHANGED nonRouteVars
       /\ \E c \in Conns : OpenAIOpen(c)
    \/ /\ UNCHANGED nonRouteVars
       /\ \E c \in Conns, hasPayload \in BOOLEAN :
             wsOpen[c] /\ framesIn[c] < MaxFrames /\ Media(c, hasPayload)
    \/ /\ UNCHANGED nonRouteVars
       /\ \E c \in Conns :
             wsOpen[c] /\ startPc[c] # "idle" /\ stopPc[c] = "idle" /\ StopBegin(c, CallOf(c))
    \/ /\ UNCHANGED nonRouteVars
       /\ \E c \in Conns : StopAfterEnd(c, CallOf(c))
    \/ /\ UNCHANGED nonRouteVars
       /\ \E s \in CallIds : PurgeAiCall(s)
    \/ /\ UNCHANGED nonRouteVars
       /\ \E c \in Conns : wsOpen[c] /\ WsClose(c)

Spec == Init /\ [][Next]_vars

\* The merge statement applied to every incident and update of the input sets.
InitMerge == RouteInit /\ MergeInputs /\ ExtractInit /\ TtsInit /\ GateInit /\ AgentInit /\ RegInit /\ GeoInit /\ OrderInit /\ DashInit /\ OverlapInit /\ HookInit

NextMerge == ApplyMerge /\ UNCHANGED nonMergeVars

SpecMerge == InitMerge /\ [][NextMerge]_vars

\* One call of the agent-mode server and its extraction requests.
NextExtract ==
    \/ /\ UNCHANGED nonExtractVars
       /\ ExStart
    \/ /\ UNCHANGED nonExtractVars
       /\ ExSocketOpen
    \/ /\ UNCHANGED nonExtractVars
       /\ Len(messages) < MaxMessages /\ CallerFinal
    \/ /\ UNCHANGED nonExtractVars
       /\ Len(messages) < MaxMessages /\ DispatcherFinal
    \/ /\ UNCHANGED nonExtractVars
       /\ WindowElapses
    \/ /\ UNCHANGED nonExtractVars
       /\ \E r \in inflight, hasUpdates \in BOOLEAN, updates \in UpdateSamples,
             question \in QuestionSamples :
             AnalysisReturns(r, hasUpdates, updates, question)
    \/ /\ UNCHANGED nonExtractVars
       /\ \E r \in inflight : AnalysisFails(r)
    \/ /\ UNCHANGED nonExtractVars
       /\ ExStop
    \/ /\ UNCHANGED nonExtractVars
       /\ \E ok \in BOOLEAN : ExReportSettles(ok)

SpecExtract == Init /\ [][NextExtract]_vars

\* One short call of the agent-mode server with its audio frames, its
\* extraction requests and its report request.
MaxTeardownMessages == 2

NextTeardown ==
    \/ /\ UNCHANGED nonExtractVars
       /\ ExStart
    \/ /\ UNCHANGED nonExtractVars
       /\ ExSocketOpen
    \/ /\ UNCHANGED nonExtractVars
       /\ \E hasPayload \in BOOLEAN : exFrames < MaxFrames /\ ExMedia(hasPayload)
    \/ /\ UNCHANGED nonExtractVars
       /\ Len(messages) < MaxTeardownMessages /\ CallerFinal
    \/ /\ UNCHANGED nonExtractVars
       /\ \E r \in inflight, hasUpdates \in BOOLEAN, updates \in UpdateSamples,
             question \in QuestionSamples :
             AnalysisReturns(r, hasUpdates, updates, question)
    \/ /\ UNCHANGED nonExtractVars
       /\ \E r \in inflight : AnalysisFails(r)
    \/ /\ UNCHANGED nonExtractVars
       /\ ExStop
    \/ /\ UNCHANGED nonExtractVars
       /\ \E ok \in BOOLEAN : ExReportSettles(ok)

SpecTeardown == Init /\ [][NextTeardown]_vars

\* One call with its extraction results and the location reports for it.
MaxGeo == 2

NextLocation ==
    \/ /\ UNCHANGED nonExtractVars
       /\ ExStart
    \/ /\ UNCHANGED nonExtractVars
       /\ Len(messages) < MaxTeardownMessages /\ CallerFinal
    \/ /\ UNCHANGED nonExtractVars
       /\ \E r \in inflight, hasUpdates \in BOOLEAN, updates \in UpdateSamples,
             question \in QuestionSamples :
             AnalysisReturns(r, hasUpdates, updates, question)
    \/ /\ UNCHANGED nonExtractVars
       /\ \E r \in inflight : AnalysisFails(r)
    \/ /\ UNCHANGED nonExtractGeoVars
       /\ \E address \in Addresses : geoBroadcasts < MaxGeo /\ LocationUpdate(address)
    \/ /\ UNCHANGED nonExtractVars
       /\ ExStop

SpecLocation == Init /\ [][NextLocation]_vars

\* One call of the agent-mode server whose caller utterances follow each
\* other faster than the extraction answers.
NextOverlap ==
    \/ /\ UNCHANGED nonExtractVars
       /\ ExStart
    \/ /\ UNCHANGED nonExtractVars
       /\ Len(messages) < MaxMessages /\ CallerFinal
    \/ /\ UNCHANGED nonExtractOverlapVars
       /\ \E r \in inflight, hasUpdates \in BOOLEAN, updates \in UpdateSamples,
             question \in QuestionSamples :
             AnalysisWrites(r, hasUpdates, updates, question)
    \/ /\ UNCHANGED nonExtractVars
       /\ \E r \in inflight : AnalysisFails(r)

SpecOverlap == Init /\ [][NextOverlap]_vars

\* One call of a synthesis relay.
NextTts ==
    \/ /\ UNCHANGED nonTtsVars
       /\ TtsStartBegin
    \/ /\ UNCHANGED nonTtsVars
       /\ TtsStartFinish
    \/ /\ UNCHANGED nonTtsVars
       /\ \E hasPayload \in BOOLEAN :
             twilioOpen /\ audioFrames < MaxFrames /\ MediaWs(hasPayload)
    \/ /\ UNCHANGED nonTtsVars
       /\ \E hasPayload, inbound \in BOOLEAN :
             twilioOpen /\ audioFrames < MaxFrames /\ MediaHttp(hasPayload, inbound)
    \/ /\ UNCHANGED nonTtsVars
       /\ dgConn = "live" /\ partials < MaxPartials /\ PartialWs
    \/ /\ UNCHANGED nonTtsVars
       /\ dgConn = "live" /\ partials < MaxPartials /\ PartialHttp
    \/ /\ UNCHANGED nonTtsVars
       /\ dgConn = "live" /\ ttsPhase = "live" /\ ttsAnalyses < MaxAnalyses /\ TtsFinal
    \/ /\ UNCHANGED nonTtsVars
       /\ \E q \in Questions \cup {Null} : Len(synths) < MaxSynth /\ TtsAnalysisReturns(q)
    \/ /\ UNCHANGED nonTtsVars
       /\ Len(synths) < MaxSynth /\ GreetingFires
    \/ /\ UNCHANGED nonTtsVars
       /\ \E i \in DOMAIN synths : AuraWsOpen(i)
    \/ /\ UNCHANGED nonTtsVars
       /\ \E i \in DOMAIN synths : synths[i].sent < MaxChunks /\ AuraWsMessage(i)
    \/ /\ UNCHANGED nonTtsVars
       /\ \E i \in DOMAIN synths : AuraWsClosed(i)
    \/ /\ UNCHANGED nonTtsVars
       /\ \E i \in DOMAIN synths : AuraHttpResponse(i)
    \/ /\ UNCHANGED nonTtsVars
       /\ \E i \in DOMAIN synths : synths[i].sent < MaxChunks /\ AuraHttpChunk(i)
    \/ /\ UNCHANGED nonTtsVars
       /\ \E i \in DOMAIN synths, notOk \in BOOLEAN : AuraHttpSettles(i, notOk)
    \/ /\ UNCHANGED nonTtsVars
       /\ TtsStop
    \/ /\ UNCHANGED nonTtsVars
       /\ TtsClose

SpecTts == Init /\ [][NextTts]_vars

MaxStreams == 3

MaxStreamChunks == 1

\* One call of a synthesis relay and the syntheses its questions start:
\* no media frames, up to three syntheses.
NextStreams ==
    \/ /\ UNCHANGED nonTtsVars
       /\ TtsStartBegin
    \/ /\ UNCHANGED nonTtsVars
       /\ TtsStartFinish
    \/ /\ UNCHANGED nonTtsVars
       /\ dgConn = "live" /\ ttsPhase = "live" /\ ttsAnalyses < 1 /\ TtsFinal
    \/ /\ UNCHANGED nonTtsVars
       /\ \E q \in Questions \cup {Null} : Len(synths) < MaxStreams /\ TtsAnalysisReturns(q)
    \/ /\ UNCHANGED nonTtsVars
       /\ Len(synths) < MaxStreams /\ GreetingFires
    \/ /\ UNCHANGED nonTtsVars
       /\ \E i \in DOMAIN synths : AuraWsOpen(i)
    \/ /\ UNCHANGED nonTtsVars
       /\ \E i \in DOMAIN synths : synths[i].sent < MaxStreamChunks /\ AuraWsMessage(i)
    \/ /\ UNCHANGED nonTtsVars
       /\ \E i \in DOMAIN synths : AuraWsClosed(i)
    \/ /\ UNCHANGED nonTtsVars
       /\ \E i \in DOMAIN synths : AuraHttpResponse(i)
    \/ /\ UNCHANGED nonTtsVars
       /\ \E i \in DOMAIN synths : synths[i].sent < MaxStreamChunks /\ AuraHttpChunk(i)
    \/ /\ UNCHANGED nonTtsVars
       /\ \E i \in DOMAIN synths, notOk \in BOOLEAN : AuraHttpSettles(i, notOk)
    \/ /\ UNCHANGED nonTtsVars
       /\ TtsStop

SpecStreams == Init /\ [][NextStreams]_vars

\* One simulated call and the approval requests of the dashboard.
NextGate ==
    \/ /\ UNCHANGED nonGateVars
       /\ SimStart
    \/ /\ UNCHANGED nonGateVars
       /\ SimInitialMessage
    \/ /\ UNCHANGED nonGateVars
       /\ SimFirstAnalysisDone
    \/ /\ UNCHANGED nonGateVars
       /\ \E u \in Utterances :
             /\ Len(DetectAndCreateActions(simActions, simStatus, u)[1]) <= MaxActions
             /\ SimDispatcherTurn(u)
    \/ /\ UNCHANGED nonGateVars
       /\ SimDispatcherSilent
    \/ /\ UNCHANGED nonGateVars
       /\ \E closing \in BOOLEAN : SimCallerTurn(closing)
    \/ /\ UNCHANGED nonGateVars
       /\ SimAnalysisDone
    \/ /\ UNCHANGED nonGateVars
       /\ SimEnd
    \/ /\ UNCHANGED nonGateVars
       /\ \E callKnown \in BOOLEAN, actionId \in 1..(MaxActions + 1), decision \in Decisions :
             resolves < MaxResolves /\ Resolve(callKnown, actionId, decision)

SpecGate == Init /\ [][NextGate]_vars

\* One real call on one socket, with the agent's utterances.
AgentConn == "w1"

NextAgent ==
    \/ /\ UNCHANGED nonRouteVars
       /\ \E enabled \in BOOLEAN : ToggleAiMode(enabled)
    \/ /\ UNCHANGED nonRouteVars
       /\ wsOpen[AgentConn] /\ startPc[AgentConn] = "idle"
       /\ StartBegin(AgentConn, CallOf(AgentConn))
    \/ /\ UNCHANGED nonRouteVars
       /\ StartAfterRecord(AgentConn)
    \/ /\ UNCHANGED nonRouteVars
       /\ StartAfterDeepgram(AgentConn)
    \/ /\ UNCHANGED nonRouteVars
       /\ OpenAIOpen(AgentConn)
    \/ /\ UNCHANGED nonRouteAgentVars
       /\ \E u \in Utterances : AgentTranscriptDone(AgentConn, u)
    \/ /\ UNCHANGED nonRouteAgentVars
       /\ \E q \in Questions \cup {Null, Undefined} : PageAnalysisReturns(AgentConn, q)
    \/ /\ UNCHANGED nonRouteVars
       /\ \E hasPayload \in BOOLEAN :
             /\ wsOpen[AgentConn] /\ framesIn[AgentConn] < MaxFrames
             /\ Media(AgentConn, hasPayload)
    \/ /\ UNCHANGED nonRouteVars
       /\ wsOpen[AgentConn] /\ startPc[AgentConn] # "idle" /\ stopPc[AgentConn] = "idle"
       /\ StopBegin(AgentConn, CallOf(AgentConn))
    \/ /\ UNCHANGED nonRouteVars
       /\ StopAfterEnd(AgentConn, CallOf(AgentConn))
    \/ /\ UNCHANGED nonRouteVars
       /\ PurgeAiCall(CallOf(AgentConn))
    \/ /\ UNCHANGED nonRouteVars
       /\ wsOpen[AgentConn] /\ WsClose(AgentConn)

SpecAgent == Init /\ [][NextAgent]_vars

\* The same call under the scheduling Node guarantees: a handler waiting at
\* an await is resumed, a connecting socket opens or fails, and a timer that
\* was set fires.  Nothing obliges Twilio to send a further event.
PurgeFairness ==
    /\ WF_vars(UNCHANGED nonRouteVars /\ StartAfterRecord(AgentConn))
    /\ WF_vars(UNCHANGED nonRouteVars /\ StartAfterDeepgram(AgentConn))
    /\ WF_vars(UNCHANGED nonRouteVars /\ OpenAIOpen(AgentConn))
    /\ WF_vars(UNCHANGED nonRouteVars /\ StopAfterEnd(AgentConn, CallOf(AgentConn)))
    /\ WF_vars(UNCHANGED nonRouteVars /\ PurgeAiCall(CallOf(AgentConn)))

SpecPurge == Init /\ [][NextAgent]_vars /\ PurgeFairness

\* Two sockets of the agent-mode server; an event may carry any call id.
NextRegistry ==
    \/ /\ UNCHANGED nonRegVars
       /\ \E c \in RegConns, s \in RegCallIds :
             regWsOpen[c] /\ regEvents < MaxRegEvents /\ RegStartBegin(c, s)
    \/ /\ UNCHANGED nonRegVars
       /\ \E p \in regPending : RegStartAfterRecord(p)
    \/ /\ UNCHANGED nonRegVars
       /\ \E i \in DOMAIN regSockets :
             /\ regSockets[i].call \in DOMAIN regStateMap
             /\ regStateMap[regSockets[i].call].messages < MaxRegMessages
             /\ RegTranscript(i)
    \/ /\ UNCHANGED nonRegVars
       /\ \E c \in RegConns, s \in RegCallIds :
             regWsOpen[c] /\ regEvents < MaxRegEvents /\ RegStopBegin(c, s)
    \/ /\ UNCHANGED nonRegVars
       /\ \E p \in regPending : RegStopAfterEnd(p)
    \/ /\ UNCHANGED nonRegVars
       /\ \E c \in RegConns : regWsOpen[c] /\ RegWsClose(c)

SpecRegistry == Init /\ [][NextRegistry]_vars

MaxIsoEvents == 3

\* The call id each Twilio socket carries when the two sockets serve two
\* different calls.
RegOwnCall == [c \in RegConns |-> IF c = "t1" THEN "CA1" ELSE "CA2"]

\* Two calls with different call ids, each on its own socket, and the
\* errors their handlers can meet.
NextIsolation ==
    \/ /\ UNCHANGED nonRegVars
       /\ \E c \in RegConns :
             /\ regWsOpen[c] /\ regEvents < MaxIsoEvents /\ regCallSid[c] = "null"
             /\ RegStartBegin(c, RegOwnCall[c])
    \/ /\ UNCHANGED nonRegVars
       /\ \E p \in regPending : RegStartAfterRecord(p)
    \/ /\ UNCHANGED nonRegVars
       /\ \E i \in DOMAIN regSockets :
             /\ regSockets[i].call \in DOMAIN regStateMap
             /\ regStateMap[regSockets[i].call].messages < MaxRegMessages
             /\ RegTranscript(i)
    \/ /\ UNCHANGED nonRegVars
       /\ \E c \in RegConns :
             /\ regWsOpen[c] /\ regEvents < MaxIsoEvents /\ regCallSid[c] # "null"
             /\ RegStopBegin(c, RegOwnCall[c])
    \/ /\ UNCHANGED nonRegVars
       /\ \E p \in regPending : RegStopAfterEnd(p)
    \/ /\ UNCHANGED nonRegVars
       /\ \E c \in RegConns : regWsOpen[c] /\ RegWsClose(c)
    \/ /\ UNCHANGED nonRegVars
       /\ \E c \in RegConns : regWsOpen[c] /\ RegMalformed(c)
    \/ /\ UNCHANGED nonRegVars
       /\ \E s \in RegCallIds : RegAnalysisFails(s)
    \/ /\ UNCHANGED nonRegVars
       /\ \E s \in RegCallIds : RegReportFails(s)
    \/ /\ UNCHANGED nonRegVars
       /\ \E i \in DOMAIN regSockets : RegAgentSocketError(i)
    \/ /\ UNCHANGED nonRegVars
       /\ \E c \in RegConns : regWsOpen[c] /\ RegWsError(c)

SpecIsolation == Init /\ [][NextIsolation]_vars

\* The final transcripts of one call and the answers of their inserts.
NextOrder ==
    \/ /\ UNCHANGED nonOrderVars
       /\ finalsArrived < MaxFinals /\ FinalArrives
    \/ /\ UNCHANGED nonOrderVars
       /\ \E n \in storing : StoreDone(n)
    \/ /\ UNCHANGED nonOrderVars
       /\ OrderStop
    \/ /\ UNCHANGED nonOrderVars
       /\ partialsArrived < MaxOrderPartials /\ PartialArrives

SpecOrder == Init /\ [][NextOrder]_vars

\* Calls from the webhook request to the end of the start handler, with
\* mode toggles in between: Twilio opens the stream the TwiML asks for and
\* sends its start event.
NextWebhook ==
    \/ /\ UNCHANGED nonRouteVars
       /\ \E enabled \in BOOLEAN : ToggleAiMode(enabled)
    \/ /\ UNCHANGED nonRouteHookVars
       /\ \E c \in Conns, hasDispatcherPhone \in BOOLEAN :
             VoiceWebhook(c, hasDispatcherPhone)
    \/ /\ UNCHANGED nonRouteVars
       /\ \E c \in Conns :
             /\ twiml[c] \in {"connect", "fork"}
             /\ wsOpen[c] /\ startPc[c] = "idle" /\ StartBegin(c, CallOf(c))
    \/ /\ UNCHANGED nonRouteVars
       /\ \E c \in Conns : StartAfterRecord(c)
    \/ /\ UNCHANGED nonRouteVars
       /\ \E c \in Conns : StartAfterDeepgram(c)
    \/ /\ UNCHANGED nonRouteVars
       /\ \E c \in Conns : OpenAIOpen(c)

SpecWebhook == Init /\ [][NextWebhook]_vars

\* One dashboard page: transcripts arrive, renders commit, the debounce
\* timer runs out, answers arrive, and the page may be reloaded.
NextDashboard ==
    \/ /\ UNCHANGED nonDashVars
       /\ \E isPartial \in BOOLEAN :
             Len(dashMessages) < MaxDashMessages /\ DashTranscript(isPartial)
    \/ /\ UNCHANGED nonDashVars
       /\ DashCommit
    \/ /\ UNCHANGED nonDashVars
       /\ DashTimerFires
    \/ /\ UNCHANGED nonDashVars
       /\ \E changes \in BOOLEAN : DashAnswer(changes)
    \/ /\ UNCHANGED nonDashVars
       /\ dashReloads < MaxDashReloads /\ DashReload

SpecDashboard == Init /\ [][NextDashboard]_vars
\* ------------------------------------------------------------------------
\* C1: every frame a connection forwards goes to the pipeline of the mode
\* the connection's call was bound to by its start event (agent mode ->
\* OpenAI, human mode -> Deepgram), never to the other one, whatever value
\* the process-wide flag has taken since.
FramesFollowBoundMode ==
    \A c \in Conns :
        /\ fwdOpenAI[c] > 0 => (startPc[c] # "idle" /\ boundMode[c])
        /\ fwdDeepgram[c] > 0 => (startPc[c] # "idle" /\ ~boundMode[c])

\* A frame reached the pipeline of the bound mode although the flag has
\* been toggled to the other mode since the start (both directions).
FramesFollowBoundModeWitness ==
    \E c, d \in Conns :
        /\ fwdOpenAI[c] > 0 /\ fwdDeepgram[d] > 0
        /\ stopPc[c] = "idle" /\ stopPc[d] = "idle"
        /\ boundMode[d] # aiModeEnabled

\* C2: the mode stored for a call (closure flag and CallState.isAiMode) is
\* the value the flag had when the start event read it, for any later
\* sequence of toggles.
ModeBoundOnceAtStart ==
    \A c \in Conns :
        startPc[c] # "idle" =>
            /\ isThisCallAiMode[c] = boundMode[c]
            /\ (callSid[c] \in DOMAIN callStateMap
                    => callStateMap[callSid[c]].isAiMode = boundMode[c])

\* A live call whose stored mode differs from the current flag.
ModeBoundOnceAtStartWitness ==
    \E c \in Conns :
        /\ callSid[c] \in DOMAIN callStateMap
        /\ stopPc[c] = "idle"
        /\ callStateMap[callSid[c]].isAiMode = boundMode[c]
        /\ aiModeEnabled # boundMode[c]

\* C3: at most one extraction request of the call is in flight at any time.
AtMostOneExtractionInFlight == Cardinality(inflight) <= 1

\* Index of the last caller utterance before message j (0 if there is none).
PrevCallerFinal(j) ==
    IF \E i \in 1..(j - 1) : messages[i].sender = "caller"
      THEN CHOOSE i \in 1..(j - 1) :
               /\ messages[i].sender = "caller"
               /\ \A k \in (i + 1)..(j - 1) : messages[k].sender # "caller"
      ELSE 0

\* C4: when a final caller utterance arrives within the debounce window of
\* the previous one, no request is sent for the earlier utterance alone (a
\* transcript that holds the earlier but not the later one); the pair gets
\* one request, carrying the later utterance.
DebouncedTrigger ==
    \A j \in 1..Len(messages) :
        (messages[j].sender = "caller" /\ messages[j].within) =>
            \A k \in 1..Len(issued) :
                ~(PrevCallerFinal(j) <= issued[k] /\ issued[k] < j)

\* C5: a field that is known before the merge and for which the update
\* supplies null keeps its value.
MergeKeepsKnownOnNull ==
    mergeDone =>
        \A f \in IncidentFields :
            (mergeBefore[f] # Null /\ f \in DOMAIN mergeUpdates /\ mergeUpdates[f] = Null)
                => mergeAfter[f] = mergeBefore[f]

\* C6: after the merge every field with a non-null value in the update has
\* that value, and every field the update does not mention has the value it
\* had before.
MergeSetsSuppliedKeepsRest ==
    mergeDone =>
        \A f \in IncidentFields :
            /\ (f \in DOMAIN mergeUpdates /\ mergeUpdates[f] # Null)
                   => mergeAfter[f] = mergeUpdates[f]
            /\ f \notin DOMAIN mergeUpdates => mergeAfter[f] = mergeBefore[f]

\* {location: v2} merged into {location: null, type: v1, ...}.
MergeSetsSuppliedKeepsRestWitness ==
    /\ mergeDone
    /\ mergeBefore["location"] = Null /\ mergeBefore["type"] = "v1"
    /\ DOMAIN mergeUpdates = {"location"} /\ mergeUpdates["location"] = "v2"
    /\ mergeAfter["location"] = "v2" /\ mergeAfter["type"] = "v1"

NoChunkAfterBargeIn == lateChunks = {}

\* A step in which detectAndCreateActions scans a dispatcher utterance.
DetectStep == simPc = "dispatcherTurn" /\ simPc' = "callerTurn"

\* C9: scanning an utterance that matches some pattern appends exactly one
\* pending action and sets the status to pending_action; scanning one that
\* matches none leaves actions and status as they were.
OneActionPerMatchingUtterance ==
    [][DetectStep =>
          IF \E p \in 1..NumPatterns : PatternMatches(p, lastText')
            THEN /\ simActions' = Append(simActions, "pending")
                 /\ simStatus' = "pending_action"
            ELSE /\ simActions' = simActions
                 /\ simStatus' = simStatus]_vars

\* An utterance matching two patterns has been scanned: one action.
OneActionPerMatchingUtteranceWitness ==
    /\ simPc = "callerTurn"
    /\ PatternMatches(1, lastText) /\ PatternMatches(4, lastText)
    /\ simActions = <<"pending">>
    /\ simStatus = "pending_action"

\* C10: after a request that resolved an action, the status is active
\* exactly if no action is pending, and it is pending_action while an
\* action is pending.
ResolveRestoresActive ==
    [][(resolves' = resolves + 1 /\ lastFound') =>
          /\ (simStatus' = "active") <=> (PendingCount(simActions') = 0)
          /\ PendingCount(simActions') > 0 => simStatus' = "pending_action"]_vars

\* C11: a call with at least one pending action has status pending_action,
\* and a call's status is active only when none of its actions is pending.
PendingMeansAwaitingApproval ==
    simPc # "none" =>
        /\ PendingCount(simActions) > 0 => simStatus = "pending_action"
        /\ simStatus = "active" => PendingCount(simActions) = 0

\* C12: once the status of a call is completed, no later step changes the
\* status or the actions of the call.
CompletedIsTerminal ==
    [][simStatus = "completed" => UNCHANGED <<simStatus, simActions>>]_vars

\* C13: a request that resolves an action leaves every action that was
\* already approved approved, and a request addressed to an already approved
\* action leaves the status of the call as it was.
ApprovedStaysApproved ==
    [][(resolves' = resolves + 1 /\ lastFound') =>
          \A i \in DOMAIN simActions :
              simActions[i] = "approved" =>
                  /\ simActions'[i] = "approved"
                  /\ (simActions' = simActions => simStatus' = simStatus)]_vars

\* C14: a request that names no stored call, or no action of the call it
\* names, changes no state of the call and is answered with an error.
UnknownActionIsError ==
    [][(resolves' = resolves + 1 /\ ~lastFound') =>
          /\ UNCHANGED <<simStatus, simActions>>
          /\ lastReply' = "error"]_vars

\* A step in which an utterance of the agent on a real agent-mode call,
\* matching a dispatch pattern, is handled while the call is monitored.
AgentDispatchStep ==
    /\ agentSpoken' # agentSpoken
    /\ \E p \in 1..NumPatterns : PatternMatches(p, agentSpoken'.text)
    /\ callSid[agentSpoken'.conn] \in DOMAIN aiCallsMap

\* C15: on a real agent-mode call, handling an agent utterance that matches
\* a dispatch pattern leaves the call with one pending action and status
\* pending_action.
AgentUtteranceCreatesAction ==
    [][AgentDispatchStep =>
          /\ aiCallsMap'[callSid[agentSpoken'.conn]] = "pending_action"
          /\ Len(AiCallActions(callSid[agentSpoken'.conn])) = 1]_vars

\* Call id s has a session: a call state or a session entry is stored.
RegOpen(s) == s \in DOMAIN regStateMap \/ s \in DOMAIN regSessionMap

\* C16: a start event for a call id that already has a session stores no
\* new state or session, creates no agent socket, and leaves the stored
\* state (its transcript) as it was.
DuplicateStartRejected ==
    [][\A p \in regPending \ regPending' :
          (p.kind = "start" /\ RegOpen(p.sid)) =>
              UNCHANGED <<regStateMap, regSessionMap, regSockets>>]_vars

\* C17: a stop event for a call id that has no session changes no registry
\* map, broadcasts no 'call_ended' and requests no report.
UnknownStopNoEffect ==
    [][\A p \in regPending \ regPending' :
          (p.kind = "stop" /\ ~RegOpen(p.sid)) =>
              UNCHANGED <<regStateMap, regSessionMap, regReports, regCallEnded>>]_vars

\* Call id s has been closed: a stop for it was handled and it has no
\* session any more.
RegClosed(s) == regCallEnded[s] > 0 /\ ~RegOpen(s)

\* C20: handling a further stop event for a closed call, or the close of a
\* socket whose call is closed, requests no report and leaves the call
\* state map and the session map as they were.
ClosingIsIdempotent ==
    [][/\ \A p \in regPending \ regPending' :
             (p.kind = "stop" /\ RegClosed(p.sid)) =>
                 UNCHANGED <<regStateMap, regSessionMap, regReports>>
       /\ \A c \in RegConns :
             (/\ regWsOpen[c] /\ ~regWsOpen'[c]
              /\ regCallSid[c] # "null" /\ RegClosed(regCallSid[c])) =>
                 UNCHANGED <<regStateMap, regSessionMap, regReports>>]_vars

\* A call was started and two stop events for it have been handled: one
\* report was requested.
ClosingIsIdempotentWitness ==
    /\ regCallEnded["CA1"] = 2
    /\ regReports["CA1"] = 1
    /\ ~RegOpen("CA1")
    /\ \E i \in DOMAIN regSockets :
          regSockets[i].call = "CA1" /\ regSockets[i].status = "closed"

\* C18: once the stop event on a connection has been handled, no frame
\* arriving on that connection is forwarded to Deepgram or to OpenAI.
FramesAfterStopDropped ==
    [][\A c \in Conns :
          stopPc[c] = "done" =>
              /\ fwdDeepgram'[c] = fwdDeepgram[c]
              /\ fwdOpenAI'[c] = fwdOpenAI[c]]_vars

\* C19: in the HTTP synthesis relay, once the stop event of the call has
\* been handled or its socket has closed, no chunk of any synthesis of the
\* call is sent to the call's socket.
NoChunkAfterClose ==
    [][(relay = "http" /\ (ttsPhase = "ended" \/ ~twilioOpen)) =>
          \A i \in DOMAIN synths : synths'[i].sent = synths[i].sent]_vars

ReportCarriesStateAtStop ==
    [][/\ (reportPc = "none" /\ reportPc' = "pending") =>
             /\ reportBody'.messages = messages
             /\ reportBody'.incident = incident
             /\ reportBody'.urgency = urgency
       /\ reportPc # "none" => reportBody' = reportBody]_vars

\* After the stop an extraction result changed incident and urgency of the
\* state object; the request body still has the values of the stop.
ReportCarriesStateAtStopWitness ==
    /\ reportPc = "pending"
    /\ Len(reportBody.messages) > 0
    /\ reportBody.incident # incident
    /\ reportBody.urgency # urgency

ExtractionFailureHarmless ==
    [][/\ (lastAnalysis' = "failed" /\ inflight' # inflight /\ inflight' \subseteq inflight) =>
             UNCHANGED <<callPhase, messages, incident, urgency>>
       /\ (/\ exFrames' = exFrames + 1 /\ lastPayload'
           /\ exOpenaiWs = "open"
           /\ (inflight # {} \/ lastAnalysis = "failed")) =>
             exForwarded' = exForwarded + 1]_vars

\* A request of a live call failed, another is pending, and frames were
\* forwarded; the transcript is kept and the incident is as at the start.
ExtractionFailureHarmlessWitness ==
    /\ callPhase = "live"
    /\ lastAnalysis = "failed"
    /\ inflight # {}
    /\ Len(messages) = 2
    /\ exForwarded = 2
    /\ incident = [f \in IncidentFields |-> Null]

\* The response carries an updates object with an urgency value.
UrgencySupplied(hasUpdates, updates) ==
    hasUpdates /\ "urgency" \in DOMAIN updates /\ updates["urgency"] # Null

\* C25: when an extraction result is applied, the call's urgency becomes
\* the urgency the result supplies, and stays as it was if the result
\* supplies none (no updates, no urgency member, or a null one).
UrgencyOnlyWhenSupplied ==
    [][\A r \in inflight, hasUpdates \in BOOLEAN, updates \in UpdateSamples,
          question \in QuestionSamples :
          AnalysisReturns(r, hasUpdates, updates, question) =>
              IF UrgencySupplied(hasUpdates, updates)
                THEN urgency' = updates["urgency"]
                ELSE urgency' = urgency]_vars

\* Results with and without an urgency have been applied: the urgency is the
\* supplied one, next to a field that came with a null urgency.
UrgencyOnlyWhenSuppliedWitness ==
    /\ lastAnalysis = "ok"
    /\ inflight = {}
    /\ urgency = "Critical"
    /\ incident["location"] = "v2"

\* C26: incident and urgency of a live call change only in a step that
\* applies an extraction result.
OnlyExtractionWritesIncident ==
    [][(callPhase = "live" /\ (incident' # incident \/ urgency' # urgency)) =>
          /\ inflight' # inflight /\ inflight' \subseteq inflight
          /\ lastAnalysis' = "ok"]_vars

\* The per-call maps that hold an entry for call id s.
MapsHolding(s) ==
    {m \in {"callStateMap", "callSessionMap", "deepgramConnectionMap", "aiCallsMap"} :
        \/ m = "callStateMap" /\ s \in DOMAIN callStateMap
        \/ m = "callSessionMap" /\ s \in DOMAIN callSessionMap
        \/ m = "deepgramConnectionMap" /\ s \in DOMAIN deepgramConnectionMap
        \/ m = "aiCallsMap" /\ s \in DOMAIN aiCallsMap}

\* C27: once a started call has ended (its stop was handled or its socket
\* closed), a state follows in which no per-call map holds an entry for it.
EndedCallEventuallyPurged ==
    (/\ startPc[AgentConn] # "idle"
     /\ (stopPc[AgentConn] = "done" \/ ~wsOpen[AgentConn]))
        ~> (MapsHolding(CallOf(AgentConn)) = {})

\* C28: the utterances of the transcript are in the order in which their
\* final-transcript events arrived.
TranscriptInArrivalOrder ==
    \A i, j \in DOMAIN transcript : i < j => transcript[i] < transcript[j]

\* C29: when an extraction result stores a non-empty question that differs
\* from the previous one for a call in agent mode, a synthesis of that
\* question is started.
NewQuestionIsSpoken ==
    [][(/\ pageQuestion' # pageQuestion /\ pageQuestion' # Null
        /\ callSid[AgentConn] \in DOMAIN callStateMap
        /\ callStateMap[callSid[AgentConn]].isAiMode) =>
          PageStartsSynthesis(TRUE, pageQuestion, pageQuestion')]_vars

\* What the registry holds for call id b: its state, its session, its open
\* agent sockets, its handlers waiting at an await, and the open Twilio
\* sockets bound to it.
CallView(b) ==
    <<IF b \in DOMAIN regStateMap THEN <<regStateMap[b]>> ELSE <<>>,
      IF b \in DOMAIN regSessionMap THEN <<regSessionMap[b]>> ELSE <<>>,
      {i \in DOMAIN regSockets : regSockets[i].call = b /\ regSockets[i].status = "open"},
      {p \in regPending : p.sid = b},
      {c \in RegConns : regCallSid[c] = b /\ regWsOpen[c]},
      regReports[b], regCallEnded[b]>>

\* C30: a step in which a handler of call A meets an error (malformed
\* message, extraction failure, report failure, agent or Twilio socket
\* error) leaves the state, session, sockets and waiting handlers of every
\* other call unchanged.
FailureIsolated ==
    [][regLastError' # regLastError =>
          \A b \in RegCallIds \ {regLastError'.call} : CallView(b)' = CallView(b)]_vars

\* A Twilio socket error of one call has removed its session while the other
\* call still has its state, its session and an open agent socket.
FailureIsolatedWitness ==
    /\ regLastError.kind = "twilio" /\ regLastError.call # "null"
    /\ regLastError.call \notin DOMAIN regSessionMap
    /\ \E b \in RegCallIds \ {regLastError.call} :
          /\ b \in DOMAIN regStateMap /\ b \in DOMAIN regSessionMap
          /\ regSockets[regSessionMap[b].openaiWs].status = "open"

\* The number of times event n occurs in sequence q.
Occurrences(q, n) == Cardinality({i \in DOMAIN q : q[i] = n})

\* C31: every final utterance whose handler has finished has
\* started exactly one extraction, and no partial has started one or been
\* appended.
EveryFinalExtractedOnce ==
    /\ \A n \in (1..finalsArrived) \ storing : Occurrences(analysed, n) = 1
    /\ \A i \in DOMAIN transcript : transcript[i] > 0
    /\ \A i \in DOMAIN analysed : analysed[i] > 0


\* C32: no utterance id is the latest message of two analysis requests of
\* the dashboard.
NoIdAnalysedTwice ==
    \A i, j \in DOMAIN dashRequests :
        i # j => dashRequests[i].id # dashRequests[j].id

\* C33: an analysis request of the dashboard is issued by the timer of the
\* latest message and carries the message list including that message.
RequestCarriesLatestMessage ==
    [][Len(dashRequests') > Len(dashRequests) =>
          dashRequests'[Len(dashRequests')].sent = Len(dashMessages)]_vars

\* The syntheses of the stored session that nobody has closed or aborted
\* and that have not ended: they are connecting or forwarding audio.
ActiveSynths ==
    {i \in DOMAIN synths :
        sessionPresent /\ synths[i].status \in {"connecting", "open", "fetching", "streaming"}}

\* C34: while a synthesis of the call is active, the session is speaking
\* and its synthesis handle is that synthesis.
SpeakingWhileStreaming ==
    \A i \in ActiveSynths : speaking /\ tts = i

\* C35: at most one synthesis of the call is active at any time.
OneActiveSynth == Cardinality(ActiveSynths) <= 1

\* C36: the suggested question is written in the order in which the
\* requests were issued: a result of an earlier request never overwrites
\* the question written by the result of a later one.
ResultsMergedInIssueOrder ==
    \A i, j \in DOMAIN questionWriters :
        i < j => questionWriters[i] < questionWriters[j]

\* C37: once the start handler and the stop handler of a connection have
\* both finished, no call state, session or Deepgram entry is stored for the
\* call and neither of the connection's pipeline connections is in use.
NothingLeftAfterStartAndStop ==
    \A c \in Conns :
        (startPc[c] = "done" /\ stopPc[c] = "done") =>
            /\ CallOf(c) \notin DOMAIN callStateMap
            /\ CallOf(c) \notin DOMAIN callSessionMap
            /\ CallOf(c) \notin DOMAIN deepgramConnectionMap
            /\ openaiWs[c] \notin {"connecting", "open"}
            /\ deepgramConnection[c] # "live"

\* C38: the mode bound to a call at its start event is the mode its TwiML
\* was built for: agent mode for <Connect><Stream>, human mode for the
\* forked stream with <Dial>.
StartModeMatchesTwiml ==
    \A c \in Conns :
        startPc[c] # "idle" => (isThisCallAiMode[c] <=> twiml[c] = "connect")

\* C39: nothing of a call whose start bound agent mode is broadcast to the
\* human dispatcher's dashboard.
AgentCallNeverOnDashboard ==
    (startPc[AgentConn] # "idle" /\ isThisCallAiMode[AgentConn]) => dashboardGot = {}
\* C40: a stored action's status changes only from pending to approved or
\* from pending to rejected, whatever requests the approval channel receives.
ActionStatusOnlyLeavesPending ==
    [][\A i \in 1..Len(simActions) :
          (i <= Len(simActions') /\ simActions'[i] # simActions[i]) =>
              /\ simActions[i] = "pending"
              /\ simActions'[i] \in {"approved", "rejected"}]_vars

=============================================================================
